---- MODULE Spec2Model ----
(***************************************************************************)
(* Resolution-sniping monitor of src/main.py: one cooperative task per     *)
(* market polls the quote endpoint, keeps a bounded price history, detects *)
(* a spike of the leading outcome and submits one aggressive buy order.    *)
(*                                                                         *)
(* Units.  Every Decimal of the program (prices, thresholds, USDC amounts, *)
(* share sizes) is an integer counting 0.0001 (SCALE = 1 / Decimal         *)
(* ("0.0001")).  time.time() is an integer number of seconds.  A step of   *)
(* a task is the code between two suspension points (await) of the        *)
(* asyncio event loop, which is what the loop runs atomically.             *)
(***************************************************************************)
EXTENDS Integers, Sequences, FiniteSets, TLC

\* ---------------------------------------------------------------- constants
SCALE == 10000
HISTORY_WINDOW_SECONDS == 10
HISTORY_BUFFER_SIZE == 50
MAX_RETRIES == 3
DEFAULT_PRICE_THRESHOLD == 9700
DEFAULT_SPIKE_THRESHOLD == 1500
PRICE_CEILING == 9999
PRICE_NUDGE == 10
BALANCE_MARGIN_PCT == 105
\* 1 / POLL_INTERVAL_SECONDS
POLLS_PER_SECOND == 5
\* the cap of backoff_sleep, seconds
BACKOFF_CAP_SECONDS == 5
\* asyncio.sleep(0.5) after a 429 on /prices, asyncio.sleep(0.3) after a 429 on
\* /orders, milliseconds
QUOTE_429_SLEEP_MS == 500
SUBMIT_429_SLEEP_MS == 300

\* ------------------------------------------------------------------- bounds
\* time.time() at start-up; the epoch is far more than one window in the past
StartTime == 10
\* time.time() is read in steps of ClockStep seconds, up to MaxTime
ClockStep == 5
MaxTime == 25
\* get_prices calls, over all markets
MaxPolls == 2
\* get_prices calls of the market that is monitored alone
MaxSoloPolls == 4
\* get_prices calls of the market that is monitored alone on a faulty endpoint
MaxFaultyPolls == 3
\* get_prices calls of two markets monitored side by side
MaxDuoPolls == 3
\* get_prices calls on top of a history that fills the buffer
MaxHistoryPolls == 3
\* samples of a history handed to detect_spike
MaxSpikeLen == 3
\* responses other than a 200 with a well-formed body, over all markets
MaxFaults == 3
\* latest start of the two-sample jump handed to detect_spike
MaxJumpStart == 5
\* get_prices calls of each of two markets, one of them on a faulty endpoint
MaxFairPolls == 2
\* get_prices calls of the market whose price jumps once
MaxJumpPolls == 4
\* get_prices calls of two markets that both send an order
MaxSpendPolls == 4
\* update_history calls on top of a history that fills the buffer, one poll
\* interval apart or more
MaxAppends == 3
\* SNIPE_AMOUNT_USDC of the environment (10 USDC)
SnipeAmountUsdc == 100000

Markets == {"m1", "m2"}

\* the least available USDC that ensure_balance accepts: 1.05 times the snipe
\* amount, rounded up to the unit
MinimumBalance == (SnipeAmountUsdc * BALANCE_MARGIN_PCT + 99) \div 100

\* (yes ask, no ask) answers of the quote endpoint
PricePairs == {<<8000, 2000>>, <<9600, 400>>, <<300, 9700>>}

NoOrder == [token |-> "none", price |-> 0, size |-> 0]
NoEval == [polled |-> FALSE]
NoCall == [fn |-> "none"]

VARIABLES
  main_pc,        \* main(): "startup", "gather", "exited", "crashed", "stopped"
  env,            \* environment read at start-up: config, balance
  settings,       \* Settings
  clock,          \* time.time()
  task,           \* per market: "pending", "running", "failed", "cancelled"
  pc,             \* per market: the await the task is suspended at
  attempt,        \* per market: loop index of get_prices / submit_order
  price_history,  \* Market.price_history
  last_snipe_ts,  \* Market.last_snipe_ts
  order,          \* per market: the order built for the current trigger
  posts,          \* per market: outcomes of the POSTs of the current order
  accepted,       \* per market: times the exchange accepted the current order
  build_calls,    \* per market: build_signed_order calls of the current trigger
  submit_calls,   \* per market: submit_order calls of the current trigger
  snipe_calls,    \* per market: snipe_buy calls of the current trigger
  trigger_log,    \* per market: the `now` of every trigger, in order
  last_eval,      \* per market: what the last successful poll saw and did
  failure,        \* per market: the response kind whose exception ended the task
  polls,          \* get_prices calls so far
  appended,       \* per market: every sample update_history was given
  faults,         \* faulty responses so far
  call,           \* a pure function's arguments and result
  quotes,         \* per market: outcomes of the requests of the current get_prices call
  snipe_outcome   \* per market: how the snipe_buy call of the last trigger ended

vars == <<main_pc, env, settings, clock, task, pc, attempt, price_history,
          last_snipe_ts, order, posts, accepted, build_calls, submit_calls,
          snipe_calls, trigger_log, last_eval, failure, appended, polls,
          faults, call, quotes, snipe_outcome>>

\* ------------------------------------------------------------ pure functions

\* a backoff that grows by one second per attempt
backoff_sleep_linear(attempt_index) == attempt_index + 1

\* backoff_sleep(attempt): the seconds slept after the failure of an attempt
backoff_sleep(attempt_index) ==
  IF 2 ^ attempt_index < BACKOFF_CAP_SECONDS THEN 2 ^ attempt_index ELSE BACKOFF_CAP_SECONDS

\* Decimal.quantize(Decimal("0.0001")) of n / d under the default context,
\* whose rounding is ROUND_HALF_EVEN; n >= 0, d > 0
RoundHalfEven(n, d) ==
  LET q == n \div d
      r == n % d
  IN IF 2 * r < d THEN q
     ELSE IF 2 * r > d THEN q + 1
     ELSE IF q % 2 = 0 THEN q ELSE q + 1

compute_order_quantity(amount_usdc, target_price) ==
  IF target_price <= 0
  THEN [raised |-> TRUE, value |-> 0]
  ELSE [raised |-> FALSE, value |-> RoundHalfEven(amount_usdc * SCALE, target_price)]

\* a window one second longer than the cooldown
RecentWide(history, now) ==
  LET InWindow(point) == now - point[1] <= HISTORY_WINDOW_SECONDS + 1
  IN SelectSeq(history, InWindow)

\* the samples at most `window` old, in list order
RecentWithin(history, now, window) ==
  LET InWindow(point) == now - point[1] <= window
  IN SelectSeq(history, InWindow)

\* the samples of the trailing window, in list order
Recent(history, now) == RecentWithin(history, now, HISTORY_WINDOW_SECONDS)

\* the increase measured in price points instead of relative to the baseline
SpikeReachedAbsolute(winning_price, baseline_price, spike_threshold) ==
  winning_price - baseline_price >= spike_threshold

\* the increase required to equal the threshold
SpikeReachedExact(winning_price, baseline_price, spike_threshold) ==
  (winning_price - baseline_price) * SCALE = spike_threshold * baseline_price

\* (winning_price - baseline) / baseline >= spike_threshold, baseline > 0: the
\* quotient of two 4-decimal prices differs from a 4-decimal threshold by 0
\* or by far more than the 28 digits the Decimal context keeps
SpikeReached(winning_price, baseline_price, spike_threshold) ==
  (winning_price - baseline_price) * SCALE >= spike_threshold * baseline_price

\* the baseline taken from the latest sample but one instead of the earliest
detect_spike_previous(history, now, winning_price, winner_is_yes, spike_threshold) ==
  LET recent == Recent(history, now)
  IN IF Len(recent) < 2 THEN FALSE
     ELSE LET previous == recent[Len(recent) - 1]
              baseline_price == IF winner_is_yes THEN previous[2] ELSE previous[3]
          IN IF baseline_price <= 0 THEN FALSE
             ELSE SpikeReached(winning_price, baseline_price, spike_threshold)

\* one sample inside the window accepted as its own baseline
detect_spike_single(history, now, winning_price, winner_is_yes, spike_threshold) ==
  LET recent == Recent(history, now)
  IN IF Len(recent) < 1 THEN FALSE
     ELSE LET baseline_price == IF winner_is_yes THEN recent[1][2] ELSE recent[1][3]
          IN IF baseline_price <= 0 THEN FALSE
             ELSE SpikeReached(winning_price, baseline_price, spike_threshold)

detect_spike(history, now, winning_price, winner_is_yes, spike_threshold) ==
  LET recent == Recent(history, now)
  IN IF Len(recent) < 2 THEN FALSE
     ELSE LET baseline_price == IF winner_is_yes THEN recent[1][2] ELSE recent[1][3]
          IN IF baseline_price <= 0 THEN FALSE
             ELSE SpikeReached(winning_price, baseline_price, spike_threshold)

\* ties given to the NO side
determine_winner_strict(pair) ==
  IF pair[1] > pair[2]
  THEN [token |-> "yes", price |-> pair[1], is_yes |-> TRUE]
  ELSE [token |-> "no", price |-> pair[2], is_yes |-> FALSE]

determine_winner(pair) ==
  IF pair[1] >= pair[2]
  THEN [token |-> "yes", price |-> pair[1], is_yes |-> TRUE]
  ELSE [token |-> "no", price |-> pair[2], is_yes |-> FALSE]

\* price_history[:HISTORY_BUFFER_SIZE]: the oldest entries kept
TruncateKeepOldest(history) ==
  IF Len(history) > HISTORY_BUFFER_SIZE
  THEN SubSeq(history, 1, HISTORY_BUFFER_SIZE)
  ELSE history

\* price_history[-HISTORY_BUFFER_SIZE + 1:]: one entry fewer than the buffer holds
TruncateShort(history) ==
  IF Len(history) > HISTORY_BUFFER_SIZE
  THEN SubSeq(history, Len(history) - HISTORY_BUFFER_SIZE + 2, Len(history))
  ELSE history

\* price_history[-HISTORY_BUFFER_SIZE:]
Truncate(history) ==
  IF Len(history) > HISTORY_BUFFER_SIZE
  THEN SubSeq(history, Len(history) - HISTORY_BUFFER_SIZE + 1, Len(history))
  ELSE history

\* the sample inserted at the front instead of appended
update_history_prepend(history, now, pair) ==
  Truncate(<<<<now, pair[1], pair[2]>>>> \o history)

update_history(history, now, pair) ==
  Truncate(Append(history, <<now, pair[1], pair[2]>>))

\* the limit price without its ceiling
TargetPriceUncapped(winning_price) == winning_price + PRICE_NUDGE

TargetPrice(winning_price) ==
  IF PRICE_CEILING <= winning_price + PRICE_NUDGE
  THEN PRICE_CEILING
  ELSE winning_price + PRICE_NUDGE

\* the cooldown measured against the poll interval instead of the window
InCooldownPollInterval(now, last_ts) == now - last_ts < 1

\* monitor_market's cooldown test
InCooldown(now, last_ts) == now - last_ts < HISTORY_WINDOW_SECONDS

\* the threshold gate written with > for >=
ShouldSnipeStrict(winner_price, price_threshold, has_spike) ==
  winner_price > price_threshold /\ has_spike

\* monitor_market's trigger test
ShouldSnipe(winner_price, price_threshold, has_spike) ==
  winner_price >= price_threshold /\ has_spike

\* the comparison of the balance guard turned around
ensure_balance_inverted(usdc_balance, minimum) ==
  IF usdc_balance * 100 > minimum THEN "RuntimeError" ELSE "ok"

\* a balance equal to the minimum refused
ensure_balance_strict(usdc_balance, minimum) ==
  IF usdc_balance * 100 <= minimum THEN "RuntimeError" ELSE "ok"

\* a balance below the minimum logged instead of raised
ensure_balance_warn(usdc_balance, minimum) == "ok"

\* ensure_balance: minimum is snipe_amount_usdc * Decimal("1.05"), kept here as
\* snipe_amount_usdc * BALANCE_MARGIN_PCT (hundredths of the unit)
ensure_balance(usdc_balance, minimum) ==
  IF usdc_balance * 100 < minimum THEN "RuntimeError" ELSE "ok"

\* What get_prices makes of a 200 response whose body is not the two prices:
\* "none" is `return None`, "raise" an exception that leaves get_prices.
\*   not_json      resp.json() raises json.JSONDecodeError (a ValueError) inside
\*                 the first try, which catches ClientError and TimeoutError only
\*   json_scalar   a number, null or a list of non-objects: iterating it, or
\*                 `"token_id" in entry`, raises TypeError
\*   json_object   iterating a dict yields its keys, no key holds both fields,
\*                 prices is empty: KeyError, caught
\*   bad_price     Decimal(str(price)) raises decimal.InvalidOperation, an
\*                 ArithmeticError, not a ValueError
\*   missing_token KeyError("Missing token IDs in response"), caught
MalformedKinds == {"not_json", "json_scalar", "json_object", "bad_price", "missing_token"}

ParseQuoteBody(kind) ==
  IF kind \in {"json_object", "missing_token"} THEN "none" ELSE "raise"

\* snipe_buy without the dry-run return
snipe_buy_live(winner, build_ok) ==
  LET target_price == TargetPrice(winner.price)
      size == compute_order_quantity(settings.snipe_amount_usdc, target_price)
  IN IF size.raised
     THEN [pc |-> "poll_sleep", order |-> NoOrder, build_calls |-> 0, submit_calls |-> 0,
           outcome |-> "ValueError"]
     ELSE IF ~build_ok
     THEN [pc |-> "poll_sleep", order |-> NoOrder, build_calls |-> 1, submit_calls |-> 0,
           outcome |-> "build_error"]
     ELSE [pc |-> "submit_order",
           order |-> [token |-> winner.token, price |-> target_price, size |-> size.value],
           build_calls |-> 1, submit_calls |-> 1, outcome |-> "submitting"]

\* snipe_buy that sends the order although signing it failed
snipe_buy_unsigned(winner, build_ok) ==
  LET target_price == TargetPrice(winner.price)
      size == compute_order_quantity(settings.snipe_amount_usdc, target_price)
  IN IF size.raised \/ settings.dry_run
     THEN [pc |-> "poll_sleep", order |-> NoOrder, build_calls |-> 0, submit_calls |-> 0,
           outcome |-> IF size.raised THEN "ValueError" ELSE "dry_run"]
     ELSE [pc |-> "submit_order",
           order |-> [token |-> winner.token, price |-> target_price, size |-> size.value],
           build_calls |-> 1, submit_calls |-> 1,
           outcome |-> IF build_ok THEN "submitting" ELSE "build_error"]

\* snipe_buy that builds the order a second time when signing fails
snipe_buy_rebuild(winner, build_ok) ==
  LET target_price == TargetPrice(winner.price)
      size == compute_order_quantity(settings.snipe_amount_usdc, target_price)
  IN IF size.raised \/ settings.dry_run
     THEN [pc |-> "poll_sleep", order |-> NoOrder, build_calls |-> 0, submit_calls |-> 0,
           outcome |-> IF size.raised THEN "ValueError" ELSE "dry_run"]
     ELSE IF ~build_ok
     THEN [pc |-> "submit_order",
           order |-> [token |-> winner.token, price |-> target_price, size |-> size.value],
           build_calls |-> 2, submit_calls |-> 1, outcome |-> "submitting"]
     ELSE [pc |-> "submit_order",
           order |-> [token |-> winner.token, price |-> target_price, size |-> size.value],
           build_calls |-> 1, submit_calls |-> 1, outcome |-> "submitting"]

\* snipe_buy up to its first await: what the trigger leaves behind.  build_ok
\* is whether OrderBuilder.build() signs the order or raises.  outcome is how
\* the call ended: "ValueError" and "build_error" are exceptions that reach
\* monitor_market's `except Exception`, "dry_run" is the return of line 254,
\* "submitting" the await of submit_order.
snipe_buy(winner, build_ok) ==
  LET target_price == TargetPrice(winner.price)
      size == compute_order_quantity(settings.snipe_amount_usdc, target_price)
  IN IF size.raised \/ settings.dry_run
     THEN [pc |-> "poll_sleep", order |-> NoOrder, build_calls |-> 0, submit_calls |-> 0,
           outcome |-> IF size.raised THEN "ValueError" ELSE "dry_run"]
     ELSE IF ~build_ok
     THEN [pc |-> "poll_sleep", order |-> NoOrder, build_calls |-> 1, submit_calls |-> 0,
           outcome |-> "build_error"]
     ELSE [pc |-> "submit_order",
           order |-> [token |-> winner.token, price |-> target_price, size |-> size.value],
           build_calls |-> 1, submit_calls |-> 1, outcome |-> "submitting"]

\* ------------------------------------------------------------------- actions
Running(m) == main_pc = "gather" /\ task[m] = "running"

Idle ==
  /\ main_pc = "startup"
  /\ task = [m \in Markets |-> "pending"]
  /\ pc = [m \in Markets |-> "start"]
  /\ attempt = [m \in Markets |-> 0]
  /\ price_history = [m \in Markets |-> <<>>]
  /\ last_snipe_ts = [m \in Markets |-> 0]
  /\ order = [m \in Markets |-> NoOrder]
  /\ posts = [m \in Markets |-> <<>>]
  /\ accepted = [m \in Markets |-> 0]
  /\ build_calls = [m \in Markets |-> 0]
  /\ submit_calls = [m \in Markets |-> 0]
  /\ snipe_calls = [m \in Markets |-> 0]
  /\ trigger_log = [m \in Markets |-> <<>>]
  /\ last_eval = [m \in Markets |-> NoEval]
  /\ failure = [m \in Markets |-> "none"]
  /\ appended = [m \in Markets |-> <<>>]
  /\ polls = 0
  /\ faults = 0
  /\ quotes = [m \in Markets |-> <<>>]
  /\ snipe_outcome = [m \in Markets |-> "none"]

Init ==
  /\ Idle
  /\ env \in [config : {"missing", "no_markets", "ok"},
              balance : {SnipeAmountUsdc \div 2, MinimumBalance}]
  /\ settings \in [price_threshold : {DEFAULT_PRICE_THRESHOLD},
                   spike_threshold : {DEFAULT_SPIKE_THRESHOLD},
                   snipe_amount_usdc : {SnipeAmountUsdc},
                   dry_run : BOOLEAN]
  /\ clock = StartTime
  /\ call = NoCall

\* main() up to gather: configuration, markets, balance guard, task creation
Startup ==
  /\ main_pc = "startup"
  /\ IF env.config # "ok"
     THEN main_pc' = "exited" /\ UNCHANGED task
     ELSE IF ensure_balance(env.balance, settings.snipe_amount_usdc * BALANCE_MARGIN_PCT) # "ok"
     THEN main_pc' = "exited" /\ UNCHANGED task
     ELSE main_pc' = "gather" /\ task' = [m \in Markets |-> "running"]
  /\ UNCHANGED <<env, settings, clock, pc, attempt, price_history, last_snipe_ts,
                 order, posts, accepted, build_calls, submit_calls, snipe_calls,
                 trigger_log, last_eval, failure, appended, faults, polls, call,
                 quotes, snipe_outcome>>

\* asyncio.gather without return_exceptions: the first task exception is raised
\* in main(), whose finally cancels every task
GatherRaises ==
  /\ main_pc = "gather"
  /\ \E m \in Markets : task[m] = "failed"
  /\ main_pc' = "crashed"
  /\ task' = [m \in Markets |-> IF task[m] = "running" THEN "cancelled" ELSE task[m]]
  /\ UNCHANGED <<env, settings, clock, pc, attempt, price_history, last_snipe_ts,
                 order, posts, accepted, build_calls, submit_calls, snipe_calls,
                 trigger_log, last_eval, failure, appended, faults, polls, call,
                 quotes, snipe_outcome>>

\* the cancellation caught by the error handler around snipe_buy: a task that
\* is sending an order goes on to its poll sleep
ShutdownSwallowed ==
  /\ main_pc = "gather"
  /\ main_pc' = "stopped"
  /\ task' = [m \in Markets |->
               IF task[m] = "running"
                  /\ pc[m] \notin {"submit_order", "submit_429", "submit_backoff"}
               THEN "cancelled" ELSE task[m]]
  /\ pc' = [m \in Markets |->
             IF task[m] = "running"
                /\ pc[m] \in {"submit_order", "submit_429", "submit_backoff"}
             THEN "poll_sleep" ELSE pc[m]]
  /\ UNCHANGED <<env, settings, clock, attempt, price_history, last_snipe_ts,
                 order, posts, accepted, build_calls, submit_calls, snipe_calls,
                 trigger_log, last_eval, failure, appended, faults, polls, call,
                 quotes, snipe_outcome>>

\* KeyboardInterrupt / cancellation of main(): every task is cancelled at the
\* await it is suspended at
Shutdown ==
  /\ main_pc = "gather"
  /\ main_pc' = "stopped"
  /\ task' = [m \in Markets |-> IF task[m] = "running" THEN "cancelled" ELSE task[m]]
  /\ UNCHANGED <<env, settings, clock, pc, attempt, price_history, last_snipe_ts,
                 order, posts, accepted, build_calls, submit_calls, snipe_calls,
                 trigger_log, last_eval, failure, appended, faults, polls, call,
                 quotes, snipe_outcome>>

\* a poll started while the order of the last trigger is still being sent
PollWithinOverlapping(m, budget) ==
  /\ Running(m)
  /\ pc[m] \in {"start", "poll_sleep", "submit_order"}
  /\ polls < budget
  /\ pc' = [pc EXCEPT ![m] = "get_prices"]
  /\ attempt' = [attempt EXCEPT ![m] = 0]
  /\ polls' = polls + 1
  /\ order' = [order EXCEPT ![m] = NoOrder]
  /\ posts' = [posts EXCEPT ![m] = <<>>]
  /\ accepted' = [accepted EXCEPT ![m] = 0]
  /\ build_calls' = [build_calls EXCEPT ![m] = 0]
  /\ submit_calls' = [submit_calls EXCEPT ![m] = 0]
  /\ snipe_calls' = [snipe_calls EXCEPT ![m] = 0]
  /\ last_eval' = [last_eval EXCEPT ![m] = NoEval]
  /\ quotes' = [quotes EXCEPT ![m] = <<>>]
  /\ UNCHANGED <<main_pc, env, settings, clock, task, price_history, last_snipe_ts,
                 trigger_log, failure, appended, faults, call, snipe_outcome>>

\* one request at a time over the shared session: a task starts its poll only
\* when no other task is waiting for a response or sleeping between attempts
PollWithinLocked(m, budget) ==
  /\ \A n \in Markets \ {m} : pc[n] \in {"start", "poll_sleep", "dead"}
  /\ PollWithinOverlapping(m, budget)
  /\ pc[m] # "submit_order"

\* top of the while loop: get_prices sends its first request.  What the last
\* iteration left behind (its order, its evaluation) is gone.
PollWithin(m, budget) ==
  /\ Running(m)
  /\ pc[m] \in {"start", "poll_sleep"}
  /\ polls < budget
  /\ pc' = [pc EXCEPT ![m] = "get_prices"]
  /\ attempt' = [attempt EXCEPT ![m] = 0]
  /\ polls' = polls + 1
  /\ order' = [order EXCEPT ![m] = NoOrder]
  /\ posts' = [posts EXCEPT ![m] = <<>>]
  /\ accepted' = [accepted EXCEPT ![m] = 0]
  /\ build_calls' = [build_calls EXCEPT ![m] = 0]
  /\ submit_calls' = [submit_calls EXCEPT ![m] = 0]
  /\ snipe_calls' = [snipe_calls EXCEPT ![m] = 0]
  /\ last_eval' = [last_eval EXCEPT ![m] = NoEval]
  /\ quotes' = [quotes EXCEPT ![m] = <<>>]
  /\ UNCHANGED <<main_pc, env, settings, clock, task, price_history, last_snipe_ts,
                 trigger_log, failure, appended, faults, call, snipe_outcome>>

Poll(m) == PollWithin(m, MaxPolls)

\* HTTP 429 on /prices: asyncio.sleep(0.5), continue
Quote429(m) ==
  /\ Running(m)
  /\ pc[m] = "get_prices"
  /\ faults < MaxFaults
  /\ pc' = [pc EXCEPT ![m] = "sleep_429"]
  /\ quotes' = [quotes EXCEPT ![m] = Append(@, "429")]
  /\ faults' = faults + 1
  /\ UNCHANGED <<main_pc, env, settings, clock, task, attempt, price_history,
                 last_snipe_ts, order, posts, accepted, build_calls, submit_calls,
                 snipe_calls, trigger_log, last_eval, failure, appended, polls, call,
                 snipe_outcome>>

\* aiohttp.ClientError (an error status included) or asyncio.TimeoutError on
\* /prices: backoff_sleep(attempt), continue
QuoteTransient(m) ==
  /\ Running(m)
  /\ pc[m] = "get_prices"
  /\ faults < MaxFaults
  /\ pc' = [pc EXCEPT ![m] = "backoff"]
  /\ quotes' = [quotes EXCEPT ![m] = Append(@, "transient")]
  /\ faults' = faults + 1
  /\ UNCHANGED <<main_pc, env, settings, clock, task, attempt, price_history,
                 last_snipe_ts, order, posts, accepted, build_calls, submit_calls,
                 snipe_calls, trigger_log, last_eval, failure, appended, polls, call,
                 snipe_outcome>>

\* a 429 that does not use up an attempt
RetrySleepDoneFree429(m) ==
  /\ Running(m)
  /\ pc[m] \in {"sleep_429", "backoff"}
  /\ IF pc[m] = "sleep_429"
     THEN /\ pc' = [pc EXCEPT ![m] = "get_prices"]
          /\ UNCHANGED attempt
     ELSE IF attempt[m] + 1 < MAX_RETRIES
     THEN /\ attempt' = [attempt EXCEPT ![m] = attempt[m] + 1]
          /\ pc' = [pc EXCEPT ![m] = "get_prices"]
     ELSE /\ attempt' = [attempt EXCEPT ![m] = 0]
          /\ pc' = [pc EXCEPT ![m] = "poll_sleep"]
  /\ UNCHANGED <<main_pc, env, settings, clock, task, price_history, last_snipe_ts,
                 order, posts, accepted, build_calls, submit_calls, snipe_calls,
                 trigger_log, last_eval, failure, appended, faults, polls, call,
                 quotes, snipe_outcome>>

\* get_prices raising once its attempts are used up
RetrySleepDoneRaises(m) ==
  /\ Running(m)
  /\ pc[m] \in {"sleep_429", "backoff"}
  /\ IF attempt[m] + 1 < MAX_RETRIES
     THEN /\ attempt' = [attempt EXCEPT ![m] = attempt[m] + 1]
          /\ pc' = [pc EXCEPT ![m] = "get_prices"]
          /\ UNCHANGED <<task, failure>>
     ELSE /\ attempt' = [attempt EXCEPT ![m] = 0]
          /\ pc' = [pc EXCEPT ![m] = "dead"]
          /\ task' = [task EXCEPT ![m] = "failed"]
          /\ failure' = [failure EXCEPT ![m] = "exhausted"]
  /\ UNCHANGED <<main_pc, env, settings, clock, price_history, last_snipe_ts,
                 order, posts, accepted, build_calls, submit_calls, snipe_calls,
                 trigger_log, last_eval, appended, faults, polls, call,
                 quotes, snipe_outcome>>

\* the sleep after a 429 or an error ends: next iteration of range(MAX_RETRIES),
\* or `return None` and monitor_market's asyncio.sleep(POLL_INTERVAL_SECONDS)
RetrySleepDone(m) ==
  /\ Running(m)
  /\ pc[m] \in {"sleep_429", "backoff"}
  /\ IF attempt[m] + 1 < MAX_RETRIES
     THEN /\ attempt' = [attempt EXCEPT ![m] = attempt[m] + 1]
          /\ pc' = [pc EXCEPT ![m] = "get_prices"]
     ELSE /\ attempt' = [attempt EXCEPT ![m] = 0]
          /\ pc' = [pc EXCEPT ![m] = "poll_sleep"]
  /\ UNCHANGED <<main_pc, env, settings, clock, task, price_history, last_snipe_ts,
                 order, posts, accepted, build_calls, submit_calls, snipe_calls,
                 trigger_log, last_eval, failure, appended, faults, polls, call,
                 quotes, snipe_outcome>>

\* a body without the two prices recorded in the history as a sample of zeros
QuoteMalformedRecorded(m, kind) ==
  /\ Running(m)
  /\ pc[m] = "get_prices"
  /\ faults < MaxFaults
  /\ faults' = faults + 1
  /\ quotes' = [quotes EXCEPT ![m] = Append(@, kind)]
  /\ attempt' = [attempt EXCEPT ![m] = 0]
  /\ IF ParseQuoteBody(kind) = "none"
     THEN /\ pc' = [pc EXCEPT ![m] = "poll_sleep"]
          /\ price_history' = [price_history EXCEPT ![m] = Append(@, <<clock, 0, 0>>)]
          /\ UNCHANGED <<task, failure>>
     ELSE /\ pc' = [pc EXCEPT ![m] = "dead"]
          /\ task' = [task EXCEPT ![m] = "failed"]
          /\ failure' = [failure EXCEPT ![m] = kind]
          /\ UNCHANGED price_history
  /\ UNCHANGED <<main_pc, env, settings, clock, last_snipe_ts,
                 order, posts, accepted, build_calls, submit_calls, snipe_calls,
                 trigger_log, last_eval, appended, polls, call, snipe_outcome>>

\* a body without the two prices handled like a transient error
QuoteMalformedRetried(m, kind) ==
  /\ Running(m)
  /\ pc[m] = "get_prices"
  /\ faults < MaxFaults
  /\ faults' = faults + 1
  /\ quotes' = [quotes EXCEPT ![m] = Append(@, kind)]
  /\ IF ParseQuoteBody(kind) = "none"
     THEN /\ pc' = [pc EXCEPT ![m] = "backoff"]
          /\ UNCHANGED <<task, failure, attempt>>
     ELSE /\ pc' = [pc EXCEPT ![m] = "dead"]
          /\ attempt' = [attempt EXCEPT ![m] = 0]
          /\ task' = [task EXCEPT ![m] = "failed"]
          /\ failure' = [failure EXCEPT ![m] = kind]
  /\ UNCHANGED <<main_pc, env, settings, clock, price_history, last_snipe_ts,
                 order, posts, accepted, build_calls, submit_calls, snipe_calls,
                 trigger_log, last_eval, appended, polls, call, snipe_outcome>>

\* a 200 response whose body is malformed
QuoteMalformed(m, kind) ==
  /\ Running(m)
  /\ pc[m] = "get_prices"
  /\ faults < MaxFaults
  /\ faults' = faults + 1
  /\ quotes' = [quotes EXCEPT ![m] = Append(@, kind)]
  /\ attempt' = [attempt EXCEPT ![m] = 0]
  /\ IF ParseQuoteBody(kind) = "none"
     THEN /\ pc' = [pc EXCEPT ![m] = "poll_sleep"]
          /\ UNCHANGED <<task, failure>>
     ELSE /\ pc' = [pc EXCEPT ![m] = "dead"]
          /\ task' = [task EXCEPT ![m] = "failed"]
          /\ failure' = [failure EXCEPT ![m] = kind]
  /\ UNCHANGED <<main_pc, env, settings, clock, price_history, last_snipe_ts,
                 order, posts, accepted, build_calls, submit_calls, snipe_calls,
                 trigger_log, last_eval, appended, polls, call, snipe_outcome>>

\* the trigger recorded only when snipe_buy did not raise
FireCommitLate(m, now, snipe) ==
  /\ last_snipe_ts' = [last_snipe_ts EXCEPT ![m] =
                          IF snipe.outcome \in {"ValueError", "build_error"} THEN @ ELSE now]
  /\ trigger_log' = [trigger_log EXCEPT ![m] = Append(@, now)]
  /\ snipe_calls' = [snipe_calls EXCEPT ![m] = @ + 1]
  /\ pc' = [pc EXCEPT ![m] = snipe.pc]
  /\ order' = [order EXCEPT ![m] = snipe.order]
  /\ build_calls' = [build_calls EXCEPT ![m] = @ + snipe.build_calls]
  /\ submit_calls' = [submit_calls EXCEPT ![m] = @ + snipe.submit_calls]
  /\ snipe_outcome' = [snipe_outcome EXCEPT ![m] = snipe.outcome]
  /\ posts' = [posts EXCEPT ![m] = <<>>]
  /\ accepted' = [accepted EXCEPT ![m] = 0]

\* the trigger time kept in one place for all markets
FireShared(m, now, snipe) ==
  /\ last_snipe_ts' = [n \in Markets |-> now]
  /\ trigger_log' = [trigger_log EXCEPT ![m] = Append(@, now)]
  /\ snipe_calls' = [snipe_calls EXCEPT ![m] = @ + 1]
  /\ pc' = [pc EXCEPT ![m] = snipe.pc]
  /\ order' = [order EXCEPT ![m] = snipe.order]
  /\ build_calls' = [build_calls EXCEPT ![m] = @ + snipe.build_calls]
  /\ submit_calls' = [submit_calls EXCEPT ![m] = @ + snipe.submit_calls]
  /\ snipe_outcome' = [snipe_outcome EXCEPT ![m] = snipe.outcome]
  /\ posts' = [posts EXCEPT ![m] = <<>>]
  /\ accepted' = [accepted EXCEPT ![m] = 0]

\* monitor_market on a trigger: last_snipe_ts is assigned, then snipe_buy runs
\* inside the try whose `except Exception` logs and goes on to the poll sleep
Fire(m, now, snipe) ==
  /\ last_snipe_ts' = [last_snipe_ts EXCEPT ![m] = now]
  /\ trigger_log' = [trigger_log EXCEPT ![m] = Append(@, now)]
  /\ snipe_calls' = [snipe_calls EXCEPT ![m] = @ + 1]
  /\ pc' = [pc EXCEPT ![m] = snipe.pc]
  /\ order' = [order EXCEPT ![m] = snipe.order]
  /\ build_calls' = [build_calls EXCEPT ![m] = @ + snipe.build_calls]
  /\ submit_calls' = [submit_calls EXCEPT ![m] = @ + snipe.submit_calls]
  /\ snipe_outcome' = [snipe_outcome EXCEPT ![m] = snipe.outcome]
  /\ posts' = [posts EXCEPT ![m] = <<>>]
  /\ accepted' = [accepted EXCEPT ![m] = 0]

\* values time.time() can return after it returned t
TimeReads(t, steps) == {t + k * ClockStep : k \in 0..steps} \cap (0..MaxTime)

\* the cooldown tested before update_history: a poll inside the cooldown
\* records no sample
OnPricesCooldownFirst(m, pair) ==
  /\ Running(m)
  /\ pc[m] = "get_prices"
  /\ \E ts \in TimeReads(clock, 3), build_ok \in BOOLEAN :
     \E now \in TimeReads(ts, 1) :
       LET cooldown == InCooldown(now, last_snipe_ts[m])
           history == IF cooldown THEN price_history[m]
                      ELSE update_history(price_history[m], ts, pair)
           winner == determine_winner(pair)
           has_spike == detect_spike(history, now, winner.price, winner.is_yes,
                                     settings.spike_threshold)
           fire == ~cooldown /\ ShouldSnipe(winner.price, settings.price_threshold, has_spike)
           snipe == snipe_buy(winner, build_ok)
       IN /\ clock' = now
          /\ price_history' = [price_history EXCEPT ![m] = history]
          /\ appended' = [appended EXCEPT ![m] =
                            IF cooldown THEN @ ELSE Append(@, <<ts, pair[1], pair[2]>>)]
          /\ last_eval' = [last_eval EXCEPT ![m] =
                             [polled |-> TRUE, now |-> now, winner_price |-> winner.price,
                              winner_is_yes |-> winner.is_yes,
                              prev_snipe_ts |-> last_snipe_ts[m]]]
          /\ IF fire
             THEN Fire(m, now, snipe)
             ELSE /\ pc' = [pc EXCEPT ![m] = "poll_sleep"]
                  /\ UNCHANGED <<last_snipe_ts, trigger_log, snipe_calls, order,
                                 build_calls, submit_calls, posts, accepted,
                                 snipe_outcome>>
  /\ quotes' = [quotes EXCEPT ![m] = Append(@, "ok")]
  /\ attempt' = [attempt EXCEPT ![m] = 0]
  /\ UNCHANGED <<main_pc, env, settings, task, failure, faults, polls, call>>

\* a 200 response with both prices: monitor_market from update_history to its
\* next await (the poll sleep, or the first POST of submit_order).  time.time()
\* is read twice, by update_history (ts) and by monitor_market (now).
OnPricesAt(m, pair, ts, now, build_ok) ==
  /\ Running(m)
  /\ pc[m] = "get_prices"
  /\ LET history == update_history(price_history[m], ts, pair)
         winner == determine_winner(pair)
         cooldown == InCooldown(now, last_snipe_ts[m])
         has_spike == detect_spike(history, now, winner.price, winner.is_yes,
                                   settings.spike_threshold)
         fire == ~cooldown /\ ShouldSnipe(winner.price, settings.price_threshold, has_spike)
         snipe == snipe_buy(winner, build_ok)
     IN /\ clock' = now
        /\ price_history' = [price_history EXCEPT ![m] = history]
        /\ appended' = [appended EXCEPT ![m] = Append(@, <<ts, pair[1], pair[2]>>)]
        /\ last_eval' = [last_eval EXCEPT ![m] =
                           [polled |-> TRUE, now |-> now, winner_price |-> winner.price,
                            winner_is_yes |-> winner.is_yes,
                            prev_snipe_ts |-> last_snipe_ts[m]]]
        /\ IF fire
           THEN Fire(m, now, snipe)
           ELSE /\ pc' = [pc EXCEPT ![m] = "poll_sleep"]
                /\ UNCHANGED <<last_snipe_ts, trigger_log, snipe_calls, order,
                               build_calls, submit_calls, posts, accepted,
                               snipe_outcome>>
  /\ quotes' = [quotes EXCEPT ![m] = Append(@, "ok")]
  /\ attempt' = [attempt EXCEPT ![m] = 0]
  /\ UNCHANGED <<main_pc, env, settings, task, failure, faults, polls, call>>

\* the same with the two readings of the clock anywhere on its grid
OnPrices(m, pair) ==
  \E ts \in TimeReads(clock, 3), build_ok \in BOOLEAN :
    \E now \in TimeReads(ts, 1) :
      OnPricesAt(m, pair, ts, now, build_ok)

QuoteOk(m, pair) == OnPrices(m, pair)

\* HTTP 429 on /orders: asyncio.sleep(0.3), continue
Submit429(m) ==
  /\ Running(m)
  /\ pc[m] = "submit_order"
  /\ faults < MaxFaults
  /\ pc' = [pc EXCEPT ![m] = "submit_429"]
  /\ posts' = [posts EXCEPT ![m] = Append(@, "429")]
  /\ faults' = faults + 1
  /\ UNCHANGED <<main_pc, env, settings, clock, task, attempt, price_history,
                 last_snipe_ts, order, accepted, build_calls, submit_calls,
                 snipe_calls, trigger_log, last_eval, failure, appended, polls, call,
                 quotes, snipe_outcome>>

\* the POST to /orders ends in aiohttp.ClientError (the exchange refused: an
\* error status) or in asyncio.TimeoutError (the outcome is unknown: the
\* exchange may have taken the order): backoff_sleep(attempt)
SubmitTransient(m) ==
  /\ Running(m)
  /\ pc[m] = "submit_order"
  /\ faults < MaxFaults
  /\ \E kind \in {"http_error", "timeout"}, taken \in BOOLEAN :
       /\ kind = "http_error" => ~taken
       /\ posts' = [posts EXCEPT ![m] = Append(@, kind)]
       /\ accepted' = [accepted EXCEPT ![m] = IF taken THEN @ + 1 ELSE @]
  /\ pc' = [pc EXCEPT ![m] = "submit_backoff"]
  /\ faults' = faults + 1
  /\ UNCHANGED <<main_pc, env, settings, clock, task, attempt, price_history,
                 last_snipe_ts, order, build_calls, submit_calls, snipe_calls,
                 trigger_log, last_eval, failure, appended, polls, call,
                 quotes, snipe_outcome>>

\* the RuntimeError of submit_order leaving monitor_market uncaught
SubmitSleepDoneUncaught(m) ==
  /\ Running(m)
  /\ pc[m] \in {"submit_429", "submit_backoff"}
  /\ IF attempt[m] + 1 < MAX_RETRIES
     THEN /\ attempt' = [attempt EXCEPT ![m] = attempt[m] + 1]
          /\ pc' = [pc EXCEPT ![m] = "submit_order"]
          /\ UNCHANGED <<snipe_outcome, task, failure>>
     ELSE /\ attempt' = [attempt EXCEPT ![m] = 0]
          /\ pc' = [pc EXCEPT ![m] = "dead"]
          /\ snipe_outcome' = [snipe_outcome EXCEPT ![m] = "RuntimeError"]
          /\ task' = [task EXCEPT ![m] = "failed"]
          /\ failure' = [failure EXCEPT ![m] = "RuntimeError"]
  /\ UNCHANGED <<main_pc, env, settings, clock, price_history, last_snipe_ts,
                 order, posts, accepted, build_calls, submit_calls, snipe_calls,
                 trigger_log, last_eval, appended, faults, polls, call, quotes>>

\* submit_order returning without a receipt once its attempts are used up
SubmitSleepDoneSwallows(m) ==
  /\ Running(m)
  /\ pc[m] \in {"submit_429", "submit_backoff"}
  /\ IF attempt[m] + 1 < MAX_RETRIES
     THEN /\ attempt' = [attempt EXCEPT ![m] = attempt[m] + 1]
          /\ pc' = [pc EXCEPT ![m] = "submit_order"]
          /\ UNCHANGED snipe_outcome
     ELSE /\ attempt' = [attempt EXCEPT ![m] = 0]
          /\ pc' = [pc EXCEPT ![m] = "poll_sleep"]
          /\ snipe_outcome' = [snipe_outcome EXCEPT ![m] = "receipt"]
  /\ UNCHANGED <<main_pc, env, settings, clock, task, price_history, last_snipe_ts,
                 order, posts, accepted, build_calls, submit_calls, snipe_calls,
                 trigger_log, last_eval, failure, appended, faults, polls, call, quotes>>

\* the sleep of submit_order ends: the next POST of the same order, or
\* RuntimeError("Failed to submit order after retries"), which
\* monitor_market's `except Exception` catches
SubmitSleepDone(m) ==
  /\ Running(m)
  /\ pc[m] \in {"submit_429", "submit_backoff"}
  /\ IF attempt[m] + 1 < MAX_RETRIES
     THEN /\ attempt' = [attempt EXCEPT ![m] = attempt[m] + 1]
          /\ pc' = [pc EXCEPT ![m] = "submit_order"]
          /\ UNCHANGED snipe_outcome
     ELSE /\ attempt' = [attempt EXCEPT ![m] = 0]
          /\ pc' = [pc EXCEPT ![m] = "poll_sleep"]
          /\ snipe_outcome' = [snipe_outcome EXCEPT ![m] = "RuntimeError"]
  /\ UNCHANGED <<main_pc, env, settings, clock, task, price_history, last_snipe_ts,
                 order, posts, accepted, build_calls, submit_calls, snipe_calls,
                 trigger_log, last_eval, failure, appended, faults, polls, call, quotes>>

\* the POST to /orders is answered 200: the receipt is returned and logged
SubmitOk(m) ==
  /\ Running(m)
  /\ pc[m] = "submit_order"
  /\ pc' = [pc EXCEPT ![m] = "poll_sleep"]
  /\ posts' = [posts EXCEPT ![m] = Append(@, "ok")]
  /\ accepted' = [accepted EXCEPT ![m] = @ + 1]
  /\ attempt' = [attempt EXCEPT ![m] = 0]
  /\ snipe_outcome' = [snipe_outcome EXCEPT ![m] = "receipt"]
  /\ UNCHANGED <<main_pc, env, settings, clock, task, price_history, last_snipe_ts,
                 order, build_calls, submit_calls, snipe_calls, trigger_log,
                 last_eval, failure, appended, faults, polls, call, quotes>>

Next ==
  \/ Startup
  \/ GatherRaises
  \/ \E m \in Markets : Poll(m)
  \/ \E m \in Markets : Quote429(m)
  \/ \E m \in Markets : QuoteTransient(m)
  \/ \E m \in Markets : RetrySleepDone(m)
  \/ \E m \in Markets, kind \in MalformedKinds : QuoteMalformed(m, kind)
  \/ \E m \in Markets, pair \in PricePairs : QuoteOk(m, pair)
  \/ \E m \in Markets : Submit429(m)
  \/ \E m \in Markets : SubmitTransient(m)
  \/ \E m \in Markets : SubmitSleepDone(m)
  \/ \E m \in Markets : SubmitOk(m)

Spec == Init /\ [][Next]_vars

\* ------------------------------------------------- one market followed alone
\* Market m1 against an endpoint that answers every request: the trigger
\* logic over more polls than Spec affords.
SoloPoll == PollWithin("m1", MaxSoloPolls)

SoloQuoteOk == \E pair \in PricePairs : OnPrices("m1", pair)

SoloSubmitOk == SubmitOk("m1")

InitSolo ==
  /\ Idle
  /\ env = [config |-> "ok", balance |-> MinimumBalance]
  /\ settings \in [price_threshold : {DEFAULT_PRICE_THRESHOLD},
                   spike_threshold : {DEFAULT_SPIKE_THRESHOLD},
                   snipe_amount_usdc : {SnipeAmountUsdc},
                   dry_run : BOOLEAN]
  /\ clock = StartTime
  /\ call = NoCall

NextSolo ==
  \/ Startup
  \/ SoloPoll
  \/ SoloQuoteOk
  \/ SoloSubmitOk

SpecSolo == InitSolo /\ [][NextSolo]_vars

\* ------------------------------------------------------------ start-up alone
\* main() over the configurations, balances and snipe amounts of the
\* environment, up to the first request of each market's task
StartupBalances ==
  {0, SnipeAmountUsdc \div 2, MinimumBalance - 1, MinimumBalance, MinimumBalance + 1}

StartupAmounts == {0, SnipeAmountUsdc, 2 * SnipeAmountUsdc}

InitStartup ==
  /\ Idle
  /\ env \in [config : {"missing", "no_markets", "ok"}, balance : StartupBalances]
  /\ settings \in [price_threshold : {DEFAULT_PRICE_THRESHOLD},
                   spike_threshold : {DEFAULT_SPIKE_THRESHOLD},
                   snipe_amount_usdc : StartupAmounts,
                   dry_run : BOOLEAN]
  /\ clock = StartTime
  /\ call = NoCall

FirstPoll == \E m \in Markets : Poll(m)

NextStartup ==
  \/ Startup
  \/ FirstPoll

SpecStartup == InitStartup /\ [][NextStartup]_vars

\* ------------------------------------------------- two markets side by side
\* Both markets' tasks against an endpoint that answers every request
DuoPoll == \E m \in Markets : PollWithin(m, MaxDuoPolls)

DuoQuoteOk == \E m \in Markets, pair \in PricePairs : OnPrices(m, pair)

DuoSubmitOk == \E m \in Markets : SubmitOk(m)

NextDuo ==
  \/ Startup
  \/ DuoPoll
  \/ DuoQuoteOk
  \/ DuoSubmitOk

SpecDuo == InitSolo /\ [][NextDuo]_vars

\* ------------------------------------- one market against a faulty endpoint
\* Market m1 alone with every response the endpoints can give: a trigger, its
\* failure and the poll after it.
FaultyPoll == PollWithin("m1", MaxFaultyPolls)

FaultyQuote ==
  \/ Quote429("m1")
  \/ QuoteTransient("m1")
  \/ \E kind \in MalformedKinds : QuoteMalformed("m1", kind)
  \/ \E pair \in PricePairs : QuoteOk("m1", pair)

FaultySubmit ==
  \/ Submit429("m1")
  \/ SubmitTransient("m1")
  \/ SubmitOk("m1")

NextFaulty ==
  \/ Startup
  \/ GatherRaises
  \/ FaultyPoll
  \/ FaultyQuote
  \/ RetrySleepDone("m1")
  \/ FaultySubmit
  \/ SubmitSleepDone("m1")

SpecFaulty == InitSolo /\ [][NextFaulty]_vars

\* ------------------------------------------------- shutdown at any moment
\* Market m1 against the faulty endpoint, the process interrupted at any
\* suspension point of the task
NextShutdown ==
  \/ NextFaulty
  \/ Shutdown

SpecShutdown == InitSolo /\ [][NextShutdown]_vars

\* ------------------------------------------- a history that fills the buffer
\* n polls of a quiet market, POLLS_PER_SECOND a second, the last one at
\* `last`, the asks moving by a tick or two around 0.80 / 0.20
SteadyHistory(n, last) ==
  [k \in 1..n |-> <<last - ((n - k) \div POLLS_PER_SECOND),
                    8000 + (k % 3), 2000 - (k % 3)>>]

HistoryPoll == PollWithin("m1", MaxHistoryPolls)

HistoryQuoteOk == \E pair \in PricePairs : OnPrices("m1", pair)

InitHistory ==
  /\ \E n \in (HISTORY_BUFFER_SIZE - 2)..HISTORY_BUFFER_SIZE :
       /\ price_history = [m \in Markets |-> IF m = "m1" THEN SteadyHistory(n, StartTime) ELSE <<>>]
       /\ appended = [m \in Markets |-> IF m = "m1" THEN SteadyHistory(n, StartTime) ELSE <<>>]
  /\ main_pc = "gather"
  /\ task = [m \in Markets |-> "running"]
  /\ pc = [m \in Markets |-> "poll_sleep"]
  /\ attempt = [m \in Markets |-> 0]
  /\ last_snipe_ts = [m \in Markets |-> 0]
  /\ order = [m \in Markets |-> NoOrder]
  /\ posts = [m \in Markets |-> <<>>]
  /\ accepted = [m \in Markets |-> 0]
  /\ build_calls = [m \in Markets |-> 0]
  /\ submit_calls = [m \in Markets |-> 0]
  /\ snipe_calls = [m \in Markets |-> 0]
  /\ trigger_log = [m \in Markets |-> <<>>]
  /\ last_eval = [m \in Markets |-> NoEval]
  /\ failure = [m \in Markets |-> "none"]
  /\ polls = 0
  /\ faults = 0
  /\ quotes = [m \in Markets |-> <<>>]
  /\ snipe_outcome = [m \in Markets |-> "none"]
  /\ env = [config |-> "ok", balance |-> MinimumBalance]
  /\ settings = [price_threshold |-> DEFAULT_PRICE_THRESHOLD,
                 spike_threshold |-> DEFAULT_SPIKE_THRESHOLD,
                 snipe_amount_usdc |-> SnipeAmountUsdc,
                 dry_run |-> TRUE]
  /\ clock = StartTime
  /\ call = NoCall

NextHistory ==
  \/ HistoryPoll
  \/ HistoryQuoteOk

SpecHistory == InitHistory /\ [][NextHistory]_vars

\* ------------------------------------------------- pure functions on their own
\* the monitor is not started; `call` holds the arguments, then the result
Parked ==
  /\ Idle
  /\ env = [config |-> "ok", balance |-> MinimumBalance]
  /\ settings = [price_threshold |-> DEFAULT_PRICE_THRESHOLD,
                 spike_threshold |-> DEFAULT_SPIKE_THRESHOLD,
                 snipe_amount_usdc |-> SnipeAmountUsdc,
                 dry_run |-> TRUE]
  /\ clock = StartTime

Return(result) ==
  /\ ~call.returned
  /\ call' = [call EXCEPT !.returned = TRUE, !.result = result]
  /\ UNCHANGED <<main_pc, env, settings, clock, task, pc, attempt, price_history,
                 last_snipe_ts, order, posts, accepted, build_calls, submit_calls,
                 snipe_calls, trigger_log, last_eval, failure, appended, polls, faults,
                 quotes, snipe_outcome>>

\* compute_order_quantity(amount_usdc, target_price)
QtyAmounts == {0, 1, 10000, 50000, 100000}
QtyPrices == (9700..9999) \cup {1, 3, 7, 5000}

InitQty ==
  /\ Parked
  /\ \E a \in QtyAmounts, p \in QtyPrices :
       call = [fn |-> "compute_order_quantity", amount_usdc |-> a, target_price |-> p,
               returned |-> FALSE, result |-> [raised |-> FALSE, value |-> 0]]

CallQty == Return(compute_order_quantity(call.amount_usdc, call.target_price))

NextQty == CallQty

SpecQty == InitQty /\ [][NextQty]_vars

\* detect_spike(history, now, winning_price, winner_is_yes, spike_threshold)
SpikeSamples == {9, 10, 15, 20} \X {0, 8000} \X {8000, 9600}

\* histories as update_history leaves them: in the order of their timestamps
SpikeHistories ==
  {h \in UNION {[1..n -> SpikeSamples] : n \in 0..MaxSpikeLen} :
     \A i \in 1..(Len(h) - 1) : h[i][1] <= h[i + 1][1]}

InitSpike ==
  /\ Parked
  /\ \E h \in SpikeHistories, w \in {9200, 9600}, y \in BOOLEAN, t \in {1500, 2000} :
       call = [fn |-> "detect_spike", history |-> h, now |-> 20, winning_price |-> w,
               winner_is_yes |-> y, spike_threshold |-> t,
               returned |-> FALSE, result |-> FALSE]

CallSpike ==
  Return(detect_spike(call.history, call.now, call.winning_price, call.winner_is_yes,
                      call.spike_threshold))

NextSpike == CallSpike

SpecSpike == InitSpike /\ [][NextSpike]_vars

\* detect_spike on the two-sample history of a jump from 0.80 to 0.95 three
\* seconds later, over the thresholds around the increase of 0.1875
JumpHistory(t0) == <<<<t0, 8000, 2000>>, <<t0 + 3, 9500, 500>>>>

JumpThresholds == {1500, 1874, 1875, 1876, 2000}

InitJump ==
  /\ Parked
  /\ \E t0 \in 0..MaxJumpStart, age \in 0..(HISTORY_WINDOW_SECONDS + 1), t \in JumpThresholds :
       call = [fn |-> "detect_spike", history |-> JumpHistory(t0), now |-> t0 + 3 + age,
               winning_price |-> 9500, winner_is_yes |-> TRUE, spike_threshold |-> t,
               returned |-> FALSE, result |-> FALSE]

NextJump == CallSpike

SpecJump == InitJump /\ [][NextJump]_vars

\* detect_spike called with two winning prices on the same history, now, side
\* and threshold
SpikePrices == {7000, 9199, 9200, 9600}

InitSpikePair ==
  /\ Parked
  /\ \E h \in SpikeHistories, p \in SpikePrices, q \in SpikePrices, y \in BOOLEAN :
       /\ p <= q
       /\ call = [fn |-> "detect_spike_pair", history |-> h, now |-> 20,
                  winning_price |-> p, higher_price |-> q, winner_is_yes |-> y,
                  spike_threshold |-> DEFAULT_SPIKE_THRESHOLD,
                  returned |-> FALSE, result |-> FALSE, higher_result |-> FALSE]

CallSpikePair ==
  /\ ~call.returned
  /\ call' = [call EXCEPT
                !.returned = TRUE,
                !.result = detect_spike(call.history, call.now, call.winning_price,
                                        call.winner_is_yes, call.spike_threshold),
                !.higher_result = detect_spike(call.history, call.now, call.higher_price,
                                               call.winner_is_yes, call.spike_threshold)]
  /\ UNCHANGED <<main_pc, env, settings, clock, task, pc, attempt, price_history,
                 last_snipe_ts, order, posts, accepted, build_calls, submit_calls,
                 snipe_calls, trigger_log, last_eval, failure, appended, polls, faults,
                 quotes, snipe_outcome>>

NextSpikePair == CallSpikePair

SpecSpikePair == InitSpikePair /\ [][NextSpikePair]_vars

\* determine_winner(prices, market)
WinnerPrices == {0, 1, 300, 400, 2000, 4999, 5000, 5001, 8000, 9600, 9700, 9999}

InitWinner ==
  /\ Parked
  /\ \E a \in WinnerPrices, b \in WinnerPrices :
       call = [fn |-> "determine_winner", prices |-> <<a, b>>, returned |-> FALSE,
               result |-> [token |-> "none", price |-> 0, is_yes |-> FALSE]]

CallWinner == Return(determine_winner(call.prices))

NextWinner == CallWinner

SpecWinner == InitWinner /\ [][NextWinner]_vars

\* snipe_buy's target price for a winning price
TargetInputs == (9950..10005) \cup {0, 1, 5000, 9700}

InitTarget ==
  /\ Parked
  /\ \E w \in TargetInputs :
       call = [fn |-> "target_price", winning_price |-> w, returned |-> FALSE, result |-> 0]

CallTarget == Return(TargetPrice(call.winning_price))

NextTarget == CallTarget

SpecTarget == InitTarget /\ [][NextTarget]_vars

\* the retry loops of get_prices and submit_order against a scripted endpoint:
\* script[i] is the answer to the request of attempt i - 1, sleeps the
\* milliseconds slept after each failed attempt
Responses == {"429", "client_error", "timeout", "ok"}

InitRetry ==
  /\ Parked
  /\ \E fn \in {"get_prices", "submit_order"}, script \in [1..MAX_RETRIES -> Responses] :
       call = [fn |-> fn, script |-> script, attempt |-> 0, sleeps |-> <<>>,
               returned |-> FALSE, result |-> "pending"]

\* one iteration of `for attempt in range(MAX_RETRIES)`: the request, its
\* answer and the sleep after it; past the last iteration, what follows the loop
RetryIteration(fn, sleep_429_ms, on_ok, on_exhausted) ==
  /\ call.fn = fn
  /\ ~call.returned
  /\ IF call.attempt = MAX_RETRIES
     THEN call' = [call EXCEPT !.returned = TRUE, !.result = on_exhausted]
     ELSE LET response == call.script[call.attempt + 1]
          IN IF response = "ok"
             THEN call' = [call EXCEPT !.returned = TRUE, !.result = on_ok]
             ELSE IF response = "429"
             THEN call' = [call EXCEPT !.attempt = @ + 1,
                                       !.sleeps = Append(@, sleep_429_ms)]
             ELSE call' = [call EXCEPT !.attempt = @ + 1,
                                       !.sleeps = Append(@, 1000 * backoff_sleep(call.attempt))]
  /\ UNCHANGED <<main_pc, env, settings, clock, task, pc, attempt, price_history,
                 last_snipe_ts, order, posts, accepted, build_calls, submit_calls,
                 snipe_calls, trigger_log, last_eval, failure, appended, polls, faults,
                 quotes, snipe_outcome>>

QuoteRetryIteration == RetryIteration("get_prices", QUOTE_429_SLEEP_MS, "prices", "None")

SubmitRetryIteration ==
  RetryIteration("submit_order", SUBMIT_429_SLEEP_MS, "receipt", "RuntimeError")

NextRetry ==
  \/ QuoteRetryIteration
  \/ SubmitRetryIteration

SpecRetry == InitRetry /\ [][NextRetry]_vars

\* ------------------------------------------ one market, thresholds of any size
\* Market m1 alone, --price-threshold and --spike-threshold of the command
\* line from their defaults down to 0, where every price and every increase passes
InitThresholds ==
  /\ Idle
  /\ env = [config |-> "ok", balance |-> MinimumBalance]
  /\ settings \in [price_threshold : {0, DEFAULT_PRICE_THRESHOLD},
                   spike_threshold : {0, DEFAULT_SPIKE_THRESHOLD},
                   snipe_amount_usdc : {SnipeAmountUsdc},
                   dry_run : BOOLEAN]
  /\ clock = StartTime
  /\ call = NoCall

SpecThresholds == InitThresholds /\ [][NextSolo]_vars

\* ------------------------------- two markets, one of them on a faulty endpoint
\* The tasks of m1 and m2 under the event loop.  m1's requests get every
\* response the endpoints can give and m1 may stay at any await for ever;
\* m2's requests are answered.  The loop resumes a task whose response has
\* arrived or whose sleep is over, whatever the other tasks wait for: weak
\* fairness of m2's steps.  Each task has its own count of get_prices calls.
\* The run is short enough for time.time() to return one value throughout.
PollsOf(m) ==
  IF m = "m2"
  THEN Len(appended["m2"]) + (IF pc["m2"] = "get_prices" THEN 1 ELSE 0)
  ELSE polls - (Len(appended["m2"]) + (IF pc["m2"] = "get_prices" THEN 1 ELSE 0))

FairPoll(m) ==
  /\ PollsOf(m) < MaxFairPolls
  /\ PollWithin(m, polls + 1)

\* the answers of the quote endpoint: NO at 0.04, and NO at 0.97
FairPairs == {<<9600, 400>>, <<300, 9700>>}

FairQuoteOk(m) ==
  /\ \E pair \in FairPairs : QuoteOk(m, pair)
  /\ clock' = clock

AnsweredStep(m) ==
  \/ FairPoll(m)
  \/ FairQuoteOk(m)
  \/ SubmitOk(m)

FaultStep(m) ==
  \/ Quote429(m)
  \/ QuoteTransient(m)
  \/ \E kind \in MalformedKinds : QuoteMalformed(m, kind)
  \/ RetrySleepDone(m)
  \/ Submit429(m)
  \/ SubmitTransient(m)
  \/ SubmitSleepDone(m)

InitFair ==
  /\ Idle
  /\ env = [config |-> "ok", balance |-> MinimumBalance]
  /\ settings = [price_threshold |-> DEFAULT_PRICE_THRESHOLD,
                 spike_threshold |-> DEFAULT_SPIKE_THRESHOLD,
                 snipe_amount_usdc |-> SnipeAmountUsdc,
                 dry_run |-> FALSE]
  /\ clock = StartTime
  /\ call = NoCall

NextFair ==
  \/ Startup
  \/ GatherRaises
  \/ AnsweredStep("m1")
  \/ FaultStep("m1")
  \/ AnsweredStep("m2")

SpecFair ==
  /\ InitFair
  /\ [][NextFair]_vars
  /\ WF_vars(Startup)
  /\ WF_vars(AnsweredStep("m2"))

\* ------------------------------------------ one market whose price jumps once
\* Market m1 alone, its quotes constant but for one jump of the winning side.
\* Between two successful polls of a task lie the poll sleep and a request, so
\* update_history reads the clock later at each poll (at least one unit here);
\* failed polls and slow answers make the gap as long as the window and longer.
Jumps ==
  {<<<<8000, 2000>>, <<9800, 200>>>>,
   <<<<9600, 400>>, <<300, 9700>>>>,
   <<<<9600, 400>>, <<9800, 200>>>>}

PairOf(sample) == <<sample[2], sample[3]>>

\* the quotes the endpoint can answer next: the price before the jump until
\* it jumps, the price after it from then on
NextQuotes(m) ==
  LET a == appended[m]
  IN IF a = <<>> THEN {j[1] : j \in Jumps}
     ELSE IF PairOf(a[Len(a)]) # PairOf(a[1]) THEN {PairOf(a[Len(a)])}
     ELSE {PairOf(a[1])} \cup {j[2] : j \in {i \in Jumps : i[1] = PairOf(a[1])}}

PollGaps ==
  {1, HISTORY_WINDOW_SECONDS - 1, HISTORY_WINDOW_SECONDS, HISTORY_WINDOW_SECONDS + 1}

JumpPoll == PollWithin("m1", MaxJumpPolls)

JumpQuoteOk ==
  \E pair \in NextQuotes("m1"), gap \in PollGaps, lag \in {0, 1}, build_ok \in BOOLEAN :
    OnPricesAt("m1", pair, clock + gap, clock + gap + lag, build_ok)

JumpSubmitOk == SubmitOk("m1")

InitOneJump ==
  /\ Idle
  /\ env = [config |-> "ok", balance |-> MinimumBalance]
  /\ settings \in [price_threshold : {DEFAULT_PRICE_THRESHOLD},
                   spike_threshold : {1, DEFAULT_SPIKE_THRESHOLD},
                   snipe_amount_usdc : {SnipeAmountUsdc},
                   dry_run : {FALSE}]
  /\ clock = StartTime
  /\ call = NoCall

NextOneJump ==
  \/ Startup
  \/ JumpPoll
  \/ JumpQuoteOk
  \/ JumpSubmitOk

SpecOneJump == InitOneJump /\ [][NextOneJump]_vars

\* ------------------------------------------ two markets, orders and collateral
\* Both markets' tasks in live mode against an endpoint that answers every
\* request, over snipe amounts from 0.001 USDC up and over an available
\* balance that is half the amount or just the minimum ensure_balance accepts.
\* The quotes are those of a market that resolves to NO, and the run is short
\* enough for time.time() to return one value throughout.
SpendAmounts == {10, 17, SnipeAmountUsdc}

InitSpend ==
  /\ Idle
  /\ \E amount \in SpendAmounts :
       /\ env \in [config : {"ok"},
                   balance : {amount \div 2, (amount * BALANCE_MARGIN_PCT + 99) \div 100}]
       /\ settings = [price_threshold |-> DEFAULT_PRICE_THRESHOLD,
                      spike_threshold |-> DEFAULT_SPIKE_THRESHOLD,
                      snipe_amount_usdc |-> amount,
                      dry_run |-> FALSE]
  /\ clock = StartTime
  /\ call = NoCall

SpendPoll == \E m \in Markets : PollWithin(m, MaxSpendPolls)

SpendQuoteOk == \E m \in Markets : FairQuoteOk(m)

SpendSubmitOk == \E m \in Markets : SubmitOk(m)

NextSpend ==
  \/ Startup
  \/ SpendPoll
  \/ SpendQuoteOk
  \/ SpendSubmitOk

SpecSpend == InitSpend /\ [][NextSpend]_vars

\* ------------------------------------- update_history at the polling cadence
\* update_history and the window of detect_spike with time counted in poll
\* intervals (POLL_INTERVAL_SECONDS, 1 / POLLS_PER_SECOND of a second), the
\* resolution at which the buffer and the window meet: the window is
\* WindowTicks long.  `call` holds the history, the log of every sample given
\* to update_history and the now of the last poll.  Successive samples are
\* one interval apart, one gap and the new ones possibly longer.
WindowTicks == HISTORY_WINDOW_SECONDS * POLLS_PER_SECOND

TickHistory(n, last, pos, extra) ==
  [k \in 1..n |-> <<last - (n - k) - (IF k <= pos THEN extra ELSE 0),
                    8000 + (k % 3), 2000 - (k % 3)>>]

TickGaps == {1, 2}

InitTruncate ==
  /\ Parked
  /\ \E n \in (HISTORY_BUFFER_SIZE - 1)..HISTORY_BUFFER_SIZE,
        pos \in {1, HISTORY_BUFFER_SIZE - 2}, extra \in {0, 1} :
       LET h == TickHistory(n, 2 * WindowTicks, pos, extra)
       IN call = [fn |-> "update_history", history |-> h, log |-> h,
                  now |-> 2 * WindowTicks, appends |-> 0]

\* one more successful poll: update_history reads the clock a poll interval
\* or more after the last sample, monitor_market reads it again for now
AppendSample ==
  /\ call.appends < MaxAppends
  /\ \E gap \in TickGaps, lag \in {0, 1}, pair \in {<<8000, 2000>>, <<9600, 400>>} :
       LET ts == call.log[Len(call.log)][1] + gap
       IN call' = [call EXCEPT !.history = update_history(@, ts, pair),
                               !.log = Append(@, <<ts, pair[1], pair[2]>>),
                               !.now = ts + lag,
                               !.appends = @ + 1]
  /\ UNCHANGED <<main_pc, env, settings, clock, task, pc, attempt, price_history,
                 last_snipe_ts, order, posts, accepted, build_calls, submit_calls,
                 snipe_calls, trigger_log, last_eval, failure, appended, polls, faults,
                 quotes, snipe_outcome>>

NextTruncate == AppendSample

SpecTruncate == InitTruncate /\ [][NextTruncate]_vars

\* --------------------------------------------------------------------- claims

\* C1 (cooldown suppression): a successful poll whose now is less than
\* HISTORY_WINDOW_SECONDS after the market's last trigger neither assigns
\* last_snipe_ts nor calls snipe_buy, and any two triggers of one market are
\* at least HISTORY_WINDOW_SECONDS apart.
CooldownSuppression ==
  \A m \in Markets :
    /\ (last_eval[m].polled
          /\ last_eval[m].now - last_eval[m].prev_snipe_ts < HISTORY_WINDOW_SECONDS)
        => (last_snipe_ts[m] = last_eval[m].prev_snipe_ts /\ snipe_calls[m] = 0)
    /\ \A i, j \in DOMAIN trigger_log[m] :
          i < j => trigger_log[m][j] - trigger_log[m][i] >= HISTORY_WINDOW_SECONDS

\* a poll inside the cooldown of an earlier trigger that qualifies (price at
\* the threshold, spike in the window) and is suppressed
CooldownSuppressionWitness ==
  \E m \in Markets :
    /\ last_eval[m].polled
    /\ trigger_log[m] # <<>>
    /\ last_eval[m].now - last_eval[m].prev_snipe_ts < HISTORY_WINDOW_SECONDS
    /\ last_eval[m].winner_price >= settings.price_threshold
    /\ detect_spike(price_history[m], last_eval[m].now, last_eval[m].winner_price,
                    last_eval[m].winner_is_yes, settings.spike_threshold)
    /\ snipe_calls[m] = 0

\* two triggers of one market are reached
TwoTriggersReached == \E m \in Markets : Len(trigger_log[m]) >= 2

\* C2 (error isolation): an exception that ends one market's task never
\* cancels the task of another market.
ErrorIsolation ==
  \A m, n \in Markets :
    (m # n /\ task[m] = "failed") => ~(task[n] = "cancelled" /\ main_pc = "crashed")

\* C3 (malformed quote response): no 200 response with a malformed body ends
\* the task; get_prices returns None and the loop goes on.
MalformedNeverCrashes ==
  \A m \in Markets : ~(task[m] = "failed" /\ failure[m] \in MalformedKinds)

\* C5 (no blind resubmission): after a POST of an order whose outcome is
\* unknown (a timeout) the order is never sent again, so the exchange accepts
\* an order at most once.
NoBlindResubmission ==
  \A m \in Markets :
    /\ \A i \in DOMAIN posts[m] :
         posts[m][i] = "timeout" => (i = Len(posts[m]) /\ pc[m] # "submit_order")
    /\ accepted[m] <= 1

\* C6 (one submission attempt per trigger): a loop iteration calls snipe_buy,
\* build_signed_order and submit_order at most once each, and only in the
\* iteration that assigned last_snipe_ts.
Triggered(m) == last_eval[m].polled /\ last_snipe_ts[m] # last_eval[m].prev_snipe_ts

OneAttemptPerTrigger ==
  \A m \in Markets :
    /\ snipe_calls[m] = (IF Triggered(m) THEN 1 ELSE 0)
    /\ build_calls[m] <= snipe_calls[m]
    /\ submit_calls[m] <= build_calls[m]

\* a trigger whose submission failed on every attempt, back in the poll sleep
OneAttemptPerTriggerWitness ==
  \E m \in Markets :
    /\ Triggered(m)
    /\ pc[m] = "poll_sleep"
    /\ submit_calls[m] = 1
    /\ Len(posts[m]) = MAX_RETRIES
    /\ accepted[m] = 0

\* C7 (trigger condition): outside the cooldown a successful poll calls
\* snipe_buy iff winner_price >= price_threshold and detect_spike is true.
TriggerCondition ==
  \A m \in Markets :
    (last_eval[m].polled
      /\ ~(last_eval[m].now - last_eval[m].prev_snipe_ts < HISTORY_WINDOW_SECONDS))
    => ((snipe_calls[m] = 1 /\ last_snipe_ts[m] = last_eval[m].now)
         <=> (/\ last_eval[m].winner_price >= settings.price_threshold
              /\ detect_spike(price_history[m], last_eval[m].now,
                              last_eval[m].winner_price, last_eval[m].winner_is_yes,
                              settings.spike_threshold)))

\* scenario C: threshold 0.97, winner at 0.96, a spike in the window, no snipe
TriggerConditionWitness ==
  \E m \in Markets :
    /\ last_eval[m].polled
    /\ ~(last_eval[m].now - last_eval[m].prev_snipe_ts < HISTORY_WINDOW_SECONDS)
    /\ settings.price_threshold = 9700
    /\ last_eval[m].winner_price = 9600
    /\ detect_spike(price_history[m], last_eval[m].now, last_eval[m].winner_price,
                    last_eval[m].winner_is_yes, settings.spike_threshold)
    /\ snipe_calls[m] = 0
    /\ last_snipe_ts[m] = last_eval[m].prev_snipe_ts

\* C4 (quantity rounding): the size compute_order_quantity returns is
\* amount_usdc / target_price rounded down to 4 decimals, so size * target_price
\* never exceeds amount_usdc.
QuantityRoundedDown ==
  (call.fn = "compute_order_quantity" /\ call.returned /\ ~call.result.raised)
  => /\ call.result.value = (call.amount_usdc * SCALE) \div call.target_price
     /\ call.result.value * call.target_price <= call.amount_usdc * SCALE

\* C8 (history bound): price_history holds at most HISTORY_BUFFER_SIZE entries,
\* and they are the most recent appended samples, in the order appended.
LastOf(s, n) == [i \in 1..n |-> s[Len(s) - n + i]]

HistoryBound ==
  \A m \in Markets :
    /\ Len(price_history[m]) <= HISTORY_BUFFER_SIZE
    /\ price_history[m] =
         LastOf(appended[m], IF Len(appended[m]) < HISTORY_BUFFER_SIZE
                             THEN Len(appended[m]) ELSE HISTORY_BUFFER_SIZE)

\* more samples appended than the buffer holds, several of them dropped
HistoryBoundWitness ==
  \E m \in Markets :
    /\ Len(appended[m]) > HISTORY_BUFFER_SIZE + 1
    /\ Len(price_history[m]) = HISTORY_BUFFER_SIZE
    /\ price_history[m][1] # appended[m][1]

\* C9 (history ordering): the timestamps of price_history never decrease from
\* one entry to the next, truncation included, so the first entry inside the
\* window is the earliest sample inside the window.
HistoryOrdered ==
  \A m \in Markets :
    LET h == price_history[m]
        W == {i \in DOMAIN h : clock - h[i][1] <= HISTORY_WINDOW_SECONDS}
    IN /\ \A i \in 1..(Len(h) - 1) : h[i][1] <= h[i + 1][1]
       /\ \A i, j \in W : (\A k \in W : i <= k) => h[i][1] <= h[j][1]

\* a truncated history that spans several seconds, its last sample later
\* than the one before
HistoryOrderedWitness ==
  \E m \in Markets :
    LET h == price_history[m]
    IN /\ Len(appended[m]) > HISTORY_BUFFER_SIZE
       /\ Len(h) = HISTORY_BUFFER_SIZE
       /\ h[1][1] < h[Len(h) - 1][1]
       /\ h[Len(h) - 1][1] < h[Len(h)][1]

\* C10 (spike detector): detect_spike is false with fewer than two samples in
\* the window or a baseline <= 0; otherwise it is true iff the winning price
\* exceeds the baseline, the winning side's price in the earliest sample of
\* the window, by at least spike_threshold of the baseline.
SpikeReference(history, now, winning_price, winner_is_yes, spike_threshold) ==
  LET W == {i \in DOMAIN history : now - history[i][1] <= HISTORY_WINDOW_SECONDS}
  IN /\ Cardinality(W) >= 2
     /\ \E e \in W :
          /\ \A j \in W : history[e][1] < history[j][1]
                            \/ (history[e][1] = history[j][1] /\ e <= j)
          /\ LET baseline == IF winner_is_yes THEN history[e][2] ELSE history[e][3]
             IN /\ baseline > 0
                /\ (winning_price - baseline) * SCALE >= spike_threshold * baseline

JumpScenarioBReached ==
  /\ call.fn = "detect_spike"
  /\ call.returned
  /\ call.history = JumpHistory(call.history[1][1])
  /\ call.now - call.history[1][1] <= HISTORY_WINDOW_SECONDS
  /\ call.spike_threshold = 2000
  /\ ~call.result

\* C12 (spike monotonicity): with the history, now, side and threshold fixed,
\* a spike at winning price p is a spike at every winning price above p.
SpikeMonotone ==
  (call.fn = "detect_spike_pair" /\ call.returned /\ call.winning_price <= call.higher_price)
  => (call.result => call.higher_result)

\* a spike exactly at the threshold and at a strictly higher price; below the
\* threshold price there is none
SpikeMonotoneWitness ==
  /\ call.fn = "detect_spike_pair"
  /\ call.returned
  /\ call.winning_price < call.higher_price
  /\ call.result
  /\ call.higher_result
  /\ \E i \in DOMAIN call.history :
       (call.winning_price - call.history[i][3]) * SCALE
         = call.spike_threshold * call.history[i][3]

\* C13 (winner resolution): determine_winner returns the YES side iff its price
\* is at least the NO price, the YES side on a tie, and the returned price is
\* the larger of the two.
WinnerResolution ==
  (call.fn = "determine_winner" /\ call.returned)
  => /\ call.result.is_yes <=> call.prices[1] >= call.prices[2]
     /\ call.result.token = (IF call.prices[1] >= call.prices[2] THEN "yes" ELSE "no")
     /\ call.result.price >= call.prices[1]
     /\ call.result.price >= call.prices[2]
     /\ call.result.price \in {call.prices[1], call.prices[2]}

\* a tie, won by the YES side
WinnerResolutionWitness ==
  /\ call.fn = "determine_winner"
  /\ call.returned
  /\ call.prices[1] = call.prices[2]
  /\ call.prices[1] > 0
  /\ call.result.is_yes
  /\ call.result.token = "yes"

\* C14 (quote retry ceiling): one get_prices call sends at most MAX_RETRIES
\* requests whatever the mix of 429s and transient errors; after MAX_RETRIES
\* 429s the call returns None with no further request; a success on any of
\* the MAX_RETRIES attempts returns the prices.
QuoteFaults == {"429", "transient"}

QuoteRetryCeiling ==
  \A m \in Markets :
    /\ Len(quotes[m]) <= MAX_RETRIES
    /\ pc[m] \in {"get_prices", "sleep_429", "backoff"} => attempt[m] < MAX_RETRIES
    /\ (/\ Len(quotes[m]) = MAX_RETRIES
        /\ \A i \in DOMAIN quotes[m] : quotes[m][i] = "429"
        /\ pc[m] # "sleep_429")
       => (pc[m] = "poll_sleep" /\ ~last_eval[m].polled)
    /\ (quotes[m] # <<>> /\ quotes[m][Len(quotes[m])] = "ok")
       => /\ last_eval[m].polled
          /\ \A i \in 1..(Len(quotes[m]) - 1) : quotes[m][i] \in QuoteFaults

\* scenario E: three 429s, the call has returned None, the task sleeps
QuoteRetryCeilingWitness ==
  \E m \in Markets :
    /\ quotes[m] = <<"429", "429", "429">>
    /\ pc[m] = "poll_sleep"
    /\ task[m] = "running"

\* the prices returned by the last of the MAX_RETRIES attempts
QuoteThirdAttemptReached ==
  \E m \in Markets :
    /\ quotes[m] = <<"429", "transient", "ok">>
    /\ last_eval[m].polled

\* C15 (quote exhaustion degrades): when every attempt of get_prices ends in a
\* transient error, a timeout or a 429, the call returns None: the task is not
\* ended, nothing is appended to the history, no signal is evaluated, and the
\* task sleeps the poll interval from which it polls again.
QuoteExhausted(m) ==
  /\ Len(quotes[m]) = MAX_RETRIES
  /\ \A i \in DOMAIN quotes[m] : quotes[m][i] \in QuoteFaults
  /\ pc[m] \notin {"sleep_429", "backoff"}

QuoteExhaustionDegrades ==
  \A m \in Markets :
    QuoteExhausted(m)
    => /\ task[m] # "failed"
       /\ failure[m] = "none"
       /\ pc[m] = "poll_sleep"
       /\ ~last_eval[m].polled
       /\ snipe_calls[m] = 0
       /\ Len(appended[m]) + 1 <= polls
       /\ (Running(m) /\ polls < MaxFaultyPolls) => ENABLED FaultyPoll

\* a timeout, a 429 and a timeout again: None, in the poll sleep, with the
\* history of the polls before
QuoteExhaustionDegradesWitness ==
  \E m \in Markets :
    /\ quotes[m] = <<"transient", "429", "transient">>
    /\ pc[m] = "poll_sleep"
    /\ task[m] = "running"
    /\ price_history[m] # <<>>
    /\ price_history[m] = appended[m]
    /\ polls < MaxFaultyPolls

\* C16 (missing data is not retried): a response that parses but lacks the
\* price of a token makes get_prices return None on that attempt, whatever
\* its number: no further request, no backoff sleep, the task not ended.
MissingKinds == {"missing_token", "json_object"}

MissingDataNotRetried ==
  \A m \in Markets :
    /\ \A i \in DOMAIN quotes[m] : quotes[m][i] \in MissingKinds => i = Len(quotes[m])
    /\ (quotes[m] # <<>> /\ quotes[m][Len(quotes[m])] \in MissingKinds)
       => /\ pc[m] = "poll_sleep"
          /\ attempt[m] = 0
          /\ task[m] # "failed"
          /\ ~last_eval[m].polled

\* the price of a token missing in the answer to the second attempt
MissingDataNotRetriedWitness ==
  \E m \in Markets :
    /\ quotes[m] = <<"transient", "missing_token">>
    /\ pc[m] = "poll_sleep"
    /\ task[m] = "running"

\* C17 (submission exhaustion is a hard failure): submit_order sends at most
\* MAX_RETRIES POSTs; when each of them ends in a 429, an error status or a
\* timeout it raises RuntimeError; it returns a receipt only from a POST that
\* was answered successfully.
PostFaults == {"429", "http_error", "timeout"}

SubmitExhausted(m) ==
  /\ Len(posts[m]) = MAX_RETRIES
  /\ \A i \in DOMAIN posts[m] : posts[m][i] \in PostFaults
  /\ pc[m] \notin {"submit_429", "submit_backoff"}

SubmissionExhaustionRaises ==
  \A m \in Markets :
    /\ Len(posts[m]) <= MAX_RETRIES
    /\ pc[m] \in {"submit_order", "submit_429", "submit_backoff"} => attempt[m] < MAX_RETRIES
    /\ SubmitExhausted(m) => snipe_outcome[m] = "RuntimeError"
    /\ (snipe_calls[m] = 1 /\ snipe_outcome[m] = "RuntimeError") => SubmitExhausted(m)
    /\ (snipe_calls[m] = 1 /\ snipe_outcome[m] = "receipt")
       => (posts[m] # <<>> /\ posts[m][Len(posts[m])] = "ok")
    /\ \A i \in DOMAIN posts[m] : posts[m][i] = "ok" => i = Len(posts[m])

\* a 429, an error status and a timeout: RuntimeError
SubmissionExhaustionRaisesWitness ==
  \E m \in Markets :
    /\ posts[m] = <<"429", "http_error", "timeout">>
    /\ snipe_calls[m] = 1
    /\ snipe_outcome[m] = "RuntimeError"
    /\ pc[m] = "poll_sleep"

\* a receipt from the last of the MAX_RETRIES POSTs
ReceiptThirdAttemptReached ==
  \E m \in Markets :
    /\ posts[m] = <<"429", "http_error", "ok">>
    /\ snipe_outcome[m] = "receipt"

\* C18 (execution failure does not end monitoring): whatever exception ends
\* snipe_buy (compute_order_quantity, signing, submit_order after its
\* retries), monitor_market catches it: the task is not ended, it sleeps the
\* poll interval and polls again.
SnipeErrors == {"ValueError", "build_error", "RuntimeError"}

SnipeFailed(m) == snipe_calls[m] = 1 /\ snipe_outcome[m] \in SnipeErrors

ExecutionFailureKeepsMonitoring ==
  \A m \in Markets :
    /\ SnipeFailed(m)
       => /\ task[m] # "failed"
          /\ failure[m] = "none"
          /\ pc[m] = "poll_sleep"
          /\ (Running(m) /\ polls < MaxFaultyPolls) => ENABLED FaultyPoll
    /\ (task[m] = "failed") => failure[m] \in MalformedKinds

\* the poll after a snipe whose submission failed on every attempt
ExecutionFailureKeepsMonitoringWitness ==
  \E m \in Markets :
    /\ snipe_outcome[m] = "RuntimeError"
    /\ trigger_log[m] # <<>>
    /\ task[m] = "running"
    /\ pc[m] = "get_prices"
    /\ polls = MaxFaultyPolls

\* a snipe whose order could not be signed, the task in the poll sleep
BuildFailureReached ==
  \E m \in Markets :
    /\ SnipeFailed(m)
    /\ snipe_outcome[m] = "build_error"
    /\ task[m] = "running"
    /\ pc[m] = "poll_sleep"

\* C19 (trigger committed before execution): a trigger assigns last_snipe_ts
\* the poll's now before the order is built or sent, whatever becomes of the
\* snipe, and the assignment is never undone: a failed or pending snipe has
\* put the market into cooldown, and the next trigger comes no sooner than
\* HISTORY_WINDOW_SECONDS later.
TriggerCommitted ==
  \A m \in Markets :
    /\ snipe_calls[m] = 1 => last_snipe_ts[m] = last_eval[m].now
    /\ trigger_log[m] # <<>> => last_snipe_ts[m] = trigger_log[m][Len(trigger_log[m])]
    /\ \A i \in 1..(Len(trigger_log[m]) - 1) :
         trigger_log[m][i + 1] - trigger_log[m][i] >= HISTORY_WINDOW_SECONDS
    /\ (last_eval[m].polled /\ trigger_log[m] # <<>>
          /\ last_eval[m].now - trigger_log[m][Len(trigger_log[m])] < HISTORY_WINDOW_SECONDS
          /\ last_eval[m].now # trigger_log[m][Len(trigger_log[m])])
       => snipe_calls[m] = 0

\* after a snipe that failed, a poll inside the cooldown that qualifies
\* (price at the threshold, spike in the window) and is not acted upon
TriggerCommittedWitness ==
  \E m \in Markets :
    /\ snipe_outcome[m] \in SnipeErrors
    /\ last_eval[m].polled
    /\ last_eval[m].prev_snipe_ts = last_snipe_ts[m]
    /\ last_eval[m].now - last_snipe_ts[m] < HISTORY_WINDOW_SECONDS
    /\ last_eval[m].winner_price >= settings.price_threshold
    /\ detect_spike(price_history[m], last_eval[m].now, last_eval[m].winner_price,
                    last_eval[m].winner_is_yes, settings.spike_threshold)
    /\ snipe_calls[m] = 0

\* a snipe still waiting for the answer to its POST, the market in cooldown
TriggerPendingReached ==
  \E m \in Markets :
    /\ pc[m] = "submit_order"
    /\ snipe_outcome[m] = "submitting"
    /\ last_snipe_ts[m] = last_eval[m].now

\* C20 (fatal start-up failure starts nothing): with a required configuration
\* value missing, no market configured or a balance below the minimum, main()
\* ends before it creates a monitor task, and no request reaches the quote or
\* the order endpoint.
StartupFails ==
  \/ env.config # "ok"
  \/ env.balance * 100 < settings.snipe_amount_usdc * BALANCE_MARGIN_PCT

StartupFailureStartsNothing ==
  StartupFails
  => /\ main_pc \in {"startup", "exited"}
     /\ polls = 0
     /\ \A m \in Markets :
          /\ task[m] = "pending"
          /\ pc[m] = "start"
          /\ quotes[m] = <<>>
          /\ posts[m] = <<>>
          /\ price_history[m] = <<>>

\* the configuration complete, the balance below 1.05 times the snipe amount:
\* main() has ended, no task exists
StartupFailureStartsNothingWitness ==
  /\ env.config = "ok"
  /\ env.balance * 100 < settings.snipe_amount_usdc * BALANCE_MARGIN_PCT
  /\ main_pc = "exited"
  /\ \A m \in Markets : task[m] = "pending"

\* main() ended because no market is configured
NoMarketsExitReached ==
  /\ env.config = "no_markets"
  /\ main_pc = "exited"
  /\ \A m \in Markets : task[m] = "pending"

\* C21 (balance guard): with the configuration complete, main() stops at
\* ensure_balance iff the available USDC is below snipe_amount_usdc * 1.05 (an
\* equal balance passes); when it stops no task is created, otherwise every
\* market's task is.
BalanceGuard ==
  (main_pc # "startup" /\ env.config = "ok")
  => /\ main_pc = "exited"
          <=> env.balance * 100 < settings.snipe_amount_usdc * BALANCE_MARGIN_PCT
     /\ main_pc = "exited" => (polls = 0 /\ \A m \in Markets : task[m] = "pending")
     /\ main_pc # "exited" => \A m \in Markets : task[m] # "pending"

\* scenario D: half the snipe amount available (5 USDC for 10, minimum 10.5):
\* main() has ended and no task was created
BalanceGuardWitness ==
  /\ env.config = "ok"
  /\ settings.snipe_amount_usdc = SnipeAmountUsdc
  /\ env.balance = SnipeAmountUsdc \div 2
  /\ env.balance * 100 < settings.snipe_amount_usdc * BALANCE_MARGIN_PCT
  /\ main_pc = "exited"
  /\ polls = 0
  /\ \A m \in Markets : task[m] = "pending"

\* a balance equal to the minimum: monitoring has started
EqualBalanceStartsReached ==
  /\ env.balance * 100 = settings.snipe_amount_usdc * BALANCE_MARGIN_PCT
  /\ settings.snipe_amount_usdc > 0
  /\ main_pc = "gather"
  /\ polls > 0

\* C22 (sequential pipeline): a market's task has at most one quote request
\* in flight; while its order is being sent it starts no poll and evaluates no
\* signal; it enters the snipe only from a poll that triggered and leaves it
\* only to the poll sleep, from which alone a new poll starts.
PollingAt == {"start", "get_prices", "sleep_429", "backoff", "poll_sleep"}

SnipingAt == {"submit_order", "submit_429", "submit_backoff"}

\* requests of the current get_prices call sent and not yet answered
QuotesInFlight(m) ==
  IF pc[m] \in {"get_prices", "sleep_429", "backoff"}
  THEN attempt[m] + 1 - Len(quotes[m])
  ELSE 0

PipelineStep(m) ==
  /\ pc[m] \in SnipingAt
     => /\ quotes'[m] = quotes[m]
        /\ price_history'[m] = price_history[m]
        /\ last_eval'[m] = last_eval[m]
        /\ last_snipe_ts'[m] = last_snipe_ts[m]
        /\ pc'[m] \in SnipingAt \cup {"poll_sleep"}
  /\ (pc'[m] \in SnipingAt /\ pc[m] \notin SnipingAt)
     => (pc[m] = "get_prices" /\ snipe_calls'[m] = 1 /\ last_eval'[m].polled)
  /\ (quotes'[m] = <<>> /\ pc'[m] = "get_prices" /\ pc[m] # "get_prices")
     => pc[m] \in {"start", "poll_sleep"}

SequentialPipeline ==
  /\ [](\A m \in Markets :
         /\ pc[m] \in PollingAt \cup SnipingAt \cup {"dead"}
         /\ QuotesInFlight(m) \in {0, 1}
         /\ QuotesInFlight(m) = 1 <=> pc[m] = "get_prices"
         /\ pc[m] \in SnipingAt => (snipe_calls[m] = 1 /\ order[m] # NoOrder))
  /\ [][\A m \in Markets : PipelineStep(m)]_vars

\* a poll in flight after a snipe that went through: polling, sniping,
\* polling again
SequentialPipelineWitness ==
  \E m \in Markets :
    /\ pc[m] = "get_prices"
    /\ trigger_log[m] # <<>>
    /\ snipe_outcome[m] = "receipt"
    /\ QuotesInFlight(m) = 1

\* C23 (exclusive ownership): a step changes the price_history or the
\* last_snipe_ts of a market only when it is that market's own task handling a
\* quote response, and then it leaves every other market's price_history and
\* last_snipe_ts as they were.
OwnStep(m) ==
  (price_history'[m] # price_history[m] \/ last_snipe_ts'[m] # last_snipe_ts[m])
  => /\ task[m] = "running"
     /\ pc[m] = "get_prices"
     /\ pc'[m] # "get_prices"
     /\ \A n \in Markets \ {m} :
          /\ price_history'[n] = price_history[n]
          /\ last_snipe_ts'[n] = last_snipe_ts[n]
          /\ pc'[n] = pc[n]

ExclusiveOwnership == [][\A m \in Markets : OwnStep(m)]_vars

\* one market has triggered, the other has polled since and is not in cooldown
ExclusiveOwnershipWitness ==
  \E m, n \in Markets :
    /\ m # n
    /\ trigger_log[m] # <<>>
    /\ last_snipe_ts[m] > 0
    /\ price_history[n] # <<>>
    /\ price_history[n] # price_history[m]
    /\ last_eval[n].polled
    /\ last_eval[n].now >= last_snipe_ts[m]
    /\ last_snipe_ts[n] = 0

\* C24 (clean cancellation): a shutdown ends every running task at the await
\* it is suspended at, the awaits inside snipe_buy included; a cancelled task
\* stays cancelled and sends no request, appends no sample and assigns no
\* trigger afterwards.
CancelledStays(m) ==
  task[m] = "cancelled"
  => /\ task'[m] = "cancelled"
     /\ pc'[m] = pc[m]
     /\ quotes'[m] = quotes[m]
     /\ posts'[m] = posts[m]
     /\ price_history'[m] = price_history[m]
     /\ last_snipe_ts'[m] = last_snipe_ts[m]
     /\ snipe_outcome'[m] = snipe_outcome[m]
     /\ polls' = polls

CleanCancellation ==
  /\ [](main_pc = "stopped" => \A m \in Markets : task[m] # "running")
  /\ [][\A m \in Markets : CancelledStays(m)]_vars
  /\ [][main_pc' = "stopped" =>
          \A m \in Markets : task[m] = "running" => (task'[m] = "cancelled" /\ pc'[m] = pc[m])]_vars

\* the shutdown arrived while the POST of an order was awaited: the task is
\* cancelled there, the snipe neither failed nor finished
CleanCancellationWitness ==
  \E m \in Markets :
    /\ main_pc = "stopped"
    /\ task[m] = "cancelled"
    /\ pc[m] = "submit_order"
    /\ snipe_outcome[m] = "submitting"
    /\ posts[m] # <<>>

\* C25 (monitor liveness): monitor_market never leaves its loop on its own:
\* a task that was started is running, or was cancelled; whatever get_prices
\* and snipe_buy did it reaches the poll sleep, from which the next poll is
\* enabled.
MonitorNeverExits ==
  \A m \in Markets :
    /\ task[m] \in {"pending", "running", "cancelled"}
    /\ pc[m] # "dead"
    /\ (Running(m) /\ pc[m] = "poll_sleep" /\ polls < MaxFaultyPolls) => ENABLED FaultyPoll

\* C26 (target price): the limit price is min(0.9999, winning_price + 0.001):
\* never above 0.9999, winning_price + 0.001 whenever that is at most 0.9999,
\* and at least winning_price for every winning_price up to 0.9999.
TargetPriceBounds ==
  (call.fn = "target_price" /\ call.returned)
  => /\ call.result <= 9999
     /\ call.result < SCALE
     /\ call.winning_price + 10 <= 9999 => call.result = call.winning_price + 10
     /\ call.winning_price + 10 > 9999 => call.result = 9999
     /\ call.winning_price <= 9999 => call.result >= call.winning_price

\* a winning price of 0.9995: the ceiling applies, the target is 0.9999
TargetPriceBoundsWitness ==
  /\ call.fn = "target_price"
  /\ call.returned
  /\ call.winning_price = 9995
  /\ call.result = 9999

\* C27 (retry discipline): in get_prices and in submit_order a timeout and a
\* client error alike use up one attempt and are followed by a backoff of 1, 2
\* and 4 seconds for attempts 0, 1 and 2, never above 5; a 429 uses up one
\* attempt and is followed by the same short sleep whatever the attempt.
RetryCalls == {"get_prices", "submit_order"}

RetryDiscipline ==
  call.fn \in RetryCalls
  => /\ call.attempt = Len(call.sleeps)
     /\ call.attempt <= MAX_RETRIES
     /\ \A i \in DOMAIN call.sleeps :
          /\ call.script[i] \in {"client_error", "timeout"}
             => /\ call.sleeps[i] = <<1000, 2000, 4000>>[i]
                /\ call.sleeps[i] <= 5000
          /\ call.script[i] = "429"
             => call.sleeps[i] = (IF call.fn = "get_prices" THEN 500 ELSE 300)
          /\ call.script[i] # "ok"
     /\ call.returned
        => (call.result \in {"prices", "receipt"}
              <=> (call.attempt < MAX_RETRIES /\ call.script[call.attempt + 1] = "ok"))

\* submit_order after a timeout, a 429 and a client error: 1 s, 0.3 s and 4 s
\* slept, RuntimeError
RetryDisciplineWitness ==
  /\ call.fn = "submit_order"
  /\ call.returned
  /\ call.script = <<"timeout", "429", "client_error">>
  /\ call.sleeps = <<1000, 300, 4000>>
  /\ call.result = "RuntimeError"

\* get_prices after a client error, a timeout and a 429: 1 s, 2 s and 0.5 s
\* slept, None
QuoteRetryDisciplineReached ==
  /\ call.fn = "get_prices"
  /\ call.returned
  /\ call.script = <<"client_error", "timeout", "429">>
  /\ call.sleeps = <<1000, 2000, 500>>
  /\ call.result = "None"

\* C28 (signing failure aborts only the current snipe): when
\* build_signed_order raises, submit_order is not called and nothing is
\* POSTed for that trigger, the task is not ended and goes to its poll sleep,
\* and last_snipe_ts keeps the trigger's time.
BuildFailureAborts ==
  \A m \in Markets :
    (snipe_calls[m] = 1 /\ snipe_outcome[m] = "build_error")
    => /\ build_calls[m] = 1
       /\ submit_calls[m] = 0
       /\ posts[m] = <<>>
       /\ accepted[m] = 0
       /\ order[m] = NoOrder
       /\ pc[m] = "poll_sleep"
       /\ task[m] # "failed"
       /\ last_eval[m].polled
       /\ last_snipe_ts[m] = last_eval[m].now
       /\ trigger_log[m][Len(trigger_log[m])] = last_eval[m].now

\* a trigger whose order could not be signed: no POST, the task in its poll
\* sleep, the trigger time kept
BuildFailureAbortsWitness ==
  \E m \in Markets :
    /\ snipe_calls[m] = 1
    /\ snipe_outcome[m] = "build_error"
    /\ ~settings.dry_run
    /\ posts[m] = <<>>
    /\ task[m] = "running"
    /\ pc[m] = "poll_sleep"
    /\ last_snipe_ts[m] = last_eval[m].now
    /\ last_snipe_ts[m] > last_eval[m].prev_snipe_ts

\* C29 (a failed poll leaves the market alone): only the step that handles a
\* response carrying both prices changes a market's price_history or
\* last_snipe_ts; every step of a get_prices call that ends without prices, and
\* the return of None to monitor_market, leaves both as they were.
FailedPollFrame(m) ==
  quotes'[m] # Append(quotes[m], "ok")
  => /\ price_history'[m] = price_history[m]
     /\ last_snipe_ts'[m] = last_snipe_ts[m]
     /\ appended'[m] = appended[m]
     /\ trigger_log'[m] = trigger_log[m]

FailedPollNoEffect ==
  /\ [](\A m \in Markets :
         (pc[m] = "poll_sleep" /\ ~last_eval[m].polled)
         => (price_history[m] = appended[m] /\ Len(appended[m]) < polls))
  /\ [][\A m \in Markets : FailedPollFrame(m)]_vars

\* get_prices has returned None, after retries, to a market with a history
\* and an earlier trigger: both are as the polls before left them
FailedPollNoEffectWitness ==
  \E m \in Markets :
    /\ pc[m] = "poll_sleep"
    /\ ~last_eval[m].polled
    /\ Len(quotes[m]) >= 2
    /\ quotes[m][Len(quotes[m])] # "ok"
    /\ Len(price_history[m]) >= 2
    /\ price_history[m] = appended[m]
    /\ last_snipe_ts[m] > 0
    /\ last_snipe_ts[m] = trigger_log[m][Len(trigger_log[m])]

\* C30 (the cooldown skips only the evaluation): every successful poll, those
\* inside the cooldown included, appends exactly one sample to price_history,
\* stamped no later than the now of the cooldown test; a poll inside the
\* cooldown changes nothing else of the market: no trigger time, no snipe.
CooldownPollStep(m) ==
  quotes'[m] = Append(quotes[m], "ok")
  => LET sample == appended'[m][Len(appended'[m])]
     IN /\ appended'[m] = Append(appended[m], sample)
        /\ price_history'[m] =
             (IF Len(price_history[m]) < HISTORY_BUFFER_SIZE
              THEN Append(price_history[m], sample)
              ELSE Append(Tail(price_history[m]), sample))
        /\ last_eval'[m].polled
        /\ sample[1] <= last_eval'[m].now
        /\ last_eval'[m].now - last_snipe_ts[m] < HISTORY_WINDOW_SECONDS
           => /\ last_snipe_ts'[m] = last_snipe_ts[m]
              /\ trigger_log'[m] = trigger_log[m]
              /\ snipe_calls'[m] = snipe_calls[m]
              /\ snipe_outcome'[m] = snipe_outcome[m]
              /\ order'[m] = order[m]
              /\ posts'[m] = posts[m]
              /\ pc'[m] = "poll_sleep"

CooldownKeepsHistory == [][\A m \in Markets : CooldownPollStep(m)]_vars

\* a poll inside the cooldown: its sample, taken after the trigger, is the
\* last of the history, and the trigger time is the old one
CooldownKeepsHistoryWitness ==
  \E m \in Markets :
    LET h == price_history[m]
    IN /\ last_eval[m].polled
       /\ trigger_log[m] # <<>>
       /\ last_eval[m].now - last_eval[m].prev_snipe_ts < HISTORY_WINDOW_SECONDS
       /\ last_snipe_ts[m] = last_eval[m].prev_snipe_ts
       /\ snipe_calls[m] = 0
       /\ Len(h) >= 3
       /\ h[Len(h)][1] > last_snipe_ts[m]
       /\ h = appended[m]


\* C31 (no trigger without a baseline): a successful poll whose trailing
\* window holds no sample but the one it appended (the first poll of a
\* market, or the first after more than HISTORY_WINDOW_SECONDS without one)
\* triggers nothing, whatever the prices and the thresholds.
BaselineStep(m) ==
  (/\ quotes'[m] = Append(quotes[m], "ok")
   /\ Len(Recent(price_history'[m], last_eval'[m].now)) <= 1)
  => /\ trigger_log'[m] = trigger_log[m]
     /\ last_snipe_ts'[m] = last_snipe_ts[m]
     /\ snipe_calls'[m] = 0
     /\ pc'[m] = "poll_sleep"

NoTriggerWithoutBaseline == [][\A m \in Markets : BaselineStep(m)]_vars

\* a poll after a silence longer than the window: the price is over the
\* threshold and far above the last sample, which is out of the window; no
\* trigger although nothing but the missing baseline stands against it
NoTriggerWithoutBaselineWitness ==
  \E m \in Markets :
    LET h == price_history[m]
    IN /\ last_eval[m].polled
       /\ Len(h) >= 2
       /\ Len(Recent(h, last_eval[m].now)) = 1
       /\ last_eval[m].winner_price >= settings.price_threshold
       /\ last_eval[m].winner_is_yes
       /\ h[Len(h) - 1][2] > 0
       /\ SpikeReached(last_eval[m].winner_price, h[Len(h) - 1][2], settings.spike_threshold)
       /\ ~InCooldown(last_eval[m].now, last_eval[m].prev_snipe_ts)
       /\ trigger_log[m] = <<>>

\* the first poll of a market whose thresholds are 0: no trigger
FirstPollNoTriggerReached ==
  \E m \in Markets :
    /\ last_eval[m].polled
    /\ Len(appended[m]) = 1
    /\ settings.price_threshold = 0
    /\ settings.spike_threshold = 0
    /\ trigger_log[m] = <<>>


\* C32 (dry run sends nothing): with settings.dry_run no trigger builds or
\* submits an order and nothing is ever POSTed; the trigger is recorded in
\* last_snipe_ts all the same, so that two triggers of a market are at least
\* HISTORY_WINDOW_SECONDS apart as in live mode.
DryRunSendsNothing ==
  settings.dry_run
  => \A m \in Markets :
       /\ build_calls[m] = 0
       /\ submit_calls[m] = 0
       /\ posts[m] = <<>>
       /\ accepted[m] = 0
       /\ order[m] = NoOrder
       /\ pc[m] \notin {"submit_order", "submit_429", "submit_backoff"}
       /\ trigger_log[m] # <<>>
          => /\ last_snipe_ts[m] = trigger_log[m][Len(trigger_log[m])]
             /\ snipe_outcome[m] = "dry_run"
       /\ \A i \in 1..(Len(trigger_log[m]) - 1) :
            trigger_log[m][i + 1] - trigger_log[m][i] >= HISTORY_WINDOW_SECONDS

\* a dry run after its second trigger, one window after the first
DryRunSendsNothingWitness ==
  /\ settings.dry_run
  /\ \E m \in Markets :
       /\ Len(trigger_log[m]) = 2
       /\ snipe_calls[m] = 1
       /\ last_snipe_ts[m] = trigger_log[m][2]
       /\ pc[m] = "poll_sleep"

\* a dry run polled inside the cooldown of its trigger: the price is over the
\* threshold, the poll evaluates nothing
DryRunCooldownReached ==
  /\ settings.dry_run
  /\ \E m \in Markets :
       /\ trigger_log[m] # <<>>
       /\ last_eval[m].polled
       /\ last_eval[m].prev_snipe_ts = trigger_log[m][Len(trigger_log[m])]
       /\ InCooldown(last_eval[m].now, last_eval[m].prev_snipe_ts)
       /\ last_eval[m].winner_price >= settings.price_threshold
       /\ snipe_calls[m] = 0


\* C33 (cross-market independence): whatever await the other market's task is
\* suspended at (a quote response, a 429 or backoff sleep, the poll sleep, a
\* retry of its order), a running task's next step can be taken; and a task
\* that is not cancelled goes through all its polls even if the other task
\* fails its requests or never leaves an await.
NextStepFree(m) ==
  (Running(m) /\ (pc[m] \in {"start", "poll_sleep"} => PollsOf(m) < MaxFairPolls))
  => ENABLED (AnsweredStep(m) \/ FaultStep(m))

CrossMarketIndependence ==
  /\ [](\A m \in Markets : NextStepFree(m))
  /\ (main_pc = "gather")
       ~> (Len(appended["m2"]) = MaxFairPolls \/ task["m2"] = "cancelled")

\* m2 has polled to its end while m1 is still in the backoff sleep of its
\* order, and m1's next step is there to take
CrossMarketIndependenceWitness ==
  /\ Running("m1") /\ Running("m2")
  /\ pc["m1"] = "submit_backoff"
  /\ Len(appended["m2"]) = MaxFairPolls
  /\ pc["m2"] = "poll_sleep"
  /\ ENABLED (FaultStep("m1"))

\* m2 takes a step while m1 is suspended in a sleep after a failed request
StepsPastSleeperReached ==
  /\ Running("m1") /\ Running("m2")
  /\ pc["m1"] \in {"sleep_429", "backoff"}
  /\ pc["m2"] = "submit_order"


\* C34 (one jump, one snipe): with spike_threshold > 0 and a winning price
\* that jumps once and then stays, a market triggers at most once; at every
\* evaluation after the cooldown of that trigger all samples inside the
\* window are samples taken after the jump.
PostJumpWindow(m) ==
  LET h == price_history[m]
      recent == Recent(h, last_eval[m].now)
  IN \A i \in DOMAIN recent : PairOf(recent[i]) = PairOf(h[Len(h)])

OneJumpOneSnipe ==
  \A m \in Markets :
    /\ Len(trigger_log[m]) <= 1
    /\ (/\ last_eval[m].polled
        /\ trigger_log[m] # <<>>
        /\ last_eval[m].prev_snipe_ts = trigger_log[m][1]
        /\ ~InCooldown(last_eval[m].now, last_eval[m].prev_snipe_ts))
       => PostJumpWindow(m)

\* the evaluation exactly one window after the trigger: the price is over the
\* threshold, the sample before the jump was taken one unit before the
\* trigger and is still in the history, and there is no second trigger
OneJumpOneSnipeWitness ==
  \E m \in Markets :
    LET h == price_history[m]
    IN /\ last_eval[m].polled
       /\ Len(trigger_log[m]) = 1
       /\ last_eval[m].now = trigger_log[m][1] + HISTORY_WINDOW_SECONDS
       /\ last_eval[m].winner_price >= settings.price_threshold
       /\ PairOf(h[1]) # PairOf(h[Len(h)])
       /\ \E i \in DOMAIN h :
            /\ PairOf(h[i]) = PairOf(h[1])
            /\ h[i][1] = trigger_log[m][1] - 1
       /\ Len(Recent(h, last_eval[m].now)) >= 2
       /\ snipe_calls[m] = 0


\* C35 as stated (spending within the verified balance): the notional, size
\* times limit price, of all orders submitted over all markets and triggers
\* never exceeds the collateral ensure_balance saw at start-up.  While every
\* trigger so far is the one of its market's current iteration, the orders
\* held in `order` are all the orders submitted.
RECURSIVE NotionalOf(_)
NotionalOf(ms) ==
  IF ms = {} THEN 0
  ELSE LET m == CHOOSE n \in ms : TRUE
       IN submit_calls[m] * order[m].size * order[m].price + NotionalOf(ms \ {m})

SpendingWithinBalance ==
  (\A m \in Markets : Len(trigger_log[m]) = snipe_calls[m])
  => NotionalOf(Markets) <= env.balance * SCALE

\* C35 as amended: the notional of each single order submitted never exceeds
\* the collateral ensure_balance saw at start-up (snipe amounts of 0.001 USDC
\* and more); the orders of several triggers together are not bounded by it.
OrderWithinBalance ==
  \A m \in Markets : NotionalOf({m}) <= env.balance * SCALE

\* both markets have had their order accepted: each within the balance seen
\* at start-up, the two together beyond it
OrderWithinBalanceWitness ==
  /\ \A m \in Markets :
       /\ submit_calls[m] = 1
       /\ accepted[m] = 1
       /\ NotionalOf({m}) > 0
       /\ NotionalOf({m}) <= env.balance * SCALE
  /\ NotionalOf(Markets) > env.balance * SCALE


\* C36 as stated (truncation never shortens the window): with successive
\* samples at least a poll interval apart, every sample that truncation has
\* dropped is outside the window, now - timestamp > HISTORY_WINDOW_SECONDS,
\* so that the baseline of detect_spike, the first sample of the history
\* inside the window, is the earliest sample polled inside the window.
Dropped == SubSeq(call.log, 1, Len(call.log) - Len(call.history))

TruncationOutsideWindow ==
  /\ \A i \in DOMAIN Dropped : call.now - Dropped[i][1] > WindowTicks
  /\ RecentWithin(call.history, call.now, WindowTicks)
       = RecentWithin(call.log, call.now, WindowTicks)

\* C36 as amended: every sample that truncation has dropped is at least
\* HISTORY_WINDOW_SECONDS old, now - timestamp >= HISTORY_WINDOW_SECONDS, so
\* that the history holds every sample polled less than
\* HISTORY_WINDOW_SECONDS ago, the earliest of them first.
TruncationKeepsWindow ==
  /\ \A i \in DOMAIN Dropped : call.now - Dropped[i][1] >= WindowTicks
  /\ RecentWithin(call.history, call.now, WindowTicks - 1)
       = RecentWithin(call.log, call.now, WindowTicks - 1)

\* polls exactly one interval apart and now read in the instant of the
\* sample: the sample just dropped is exactly one window old
TruncationKeepsWindowWitness ==
  /\ call.appends > 0
  /\ Len(call.history) = HISTORY_BUFFER_SIZE
  /\ Dropped # <<>>
  /\ call.now - Dropped[Len(Dropped)][1] = WindowTicks
  /\ Len(RecentWithin(call.history, call.now, WindowTicks)) = HISTORY_BUFFER_SIZE

====
